---- MODULE Spec2Model ----
(***************************************************************************)
(* Model of the UEX Corp wingman (src/_internal/wingmen/uex_corp_wingman.py) *)
(* : the name resolver with its resolution cache, the session argument     *)
(* cache, the price lookups, the route optimizer, the multi-route          *)
(* aggregator, the reload command and the dispatcher.                      *)
(*                                                                         *)
(* Python values are modelled as follows.                                  *)
(*   str        a sequence of one-character strings  ("ab" is <<"a","b">>) *)
(*   None       the record None                                            *)
(*   a value    tagged by its type: Str(s), Num(n), Bool(b), or None       *)
(*   dict       a function whose DOMAIN is the set of keys                 *)
(*   list       a sequence                                                 *)
(***************************************************************************)
EXTENDS Integers, Sequences, FiniteSets, TLC

----------------------------------------------------------------------------
(* Python values *)

None == [none |-> TRUE]
Str(s) == [str |-> s]
Num(n) == [num |-> n]
Bool(b) == [bool |-> b]
IsNone(v) == DOMAIN v = {"none"}
IsStr(v) == DOMAIN v = {"str"}

----------------------------------------------------------------------------
(* Strings *)

UpperChars == <<"A","B","C","D","E","F","G","H","I","J","K","L","M",
                "N","O","P","Q","R","S","T","U","V","W","X","Y","Z">>
LowerChars == <<"a","b","c","d","e","f","g","h","i","j","k","l","m",
                "n","o","p","q","r","s","t","u","v","w","x","y","z">>

\* str.lower() on one character
LowerOf ==
    [c \in {UpperChars[i] : i \in 1..Len(UpperChars)} |->
        LowerChars[CHOOSE i \in 1..Len(UpperChars) : UpperChars[i] = c]]
LowerChar(c) == IF c \in DOMAIN LowerOf THEN LowerOf[c] ELSE c

\* str.lower()
Lower(s) == [i \in 1..Len(s) |-> LowerChar(s[i])]

\* str.replace(" ", "")
RECURSIVE RemoveSpaces(_)
RemoveSpaces(s) ==
    IF s = <<>> THEN <<>>
    ELSE IF Head(s) = " " THEN RemoveSpaces(Tail(s))
    ELSE <<Head(s)>> \o RemoveSpaces(Tail(s))

\* sub in s, for two strings
Contains(s, sub) ==
    \E i \in 1..(Len(s) - Len(sub) + 1) :
        \A t \in 1..Len(sub) : s[i + t - 1] = sub[t]

\* x in lst, for a list
InList(x, lst) == \E i \in 1..Len(lst) : lst[i] = x

\* str(n) for a small natural number
Digits == <<"0","1","2","3","4","5","6","7","8","9">>
RECURSIVE IntToStr(_)
IntToStr(n) ==
    IF n < 10 THEN <<Digits[n + 1]>>
    ELSE IntToStr(n \div 10) \o <<Digits[(n % 10) + 1]>>

----------------------------------------------------------------------------
(* difflib.SequenceMatcher, as used by difflib.get_close_matches           *)

\* a[i .. i+k-1] = b[j .. j+k-1]
BlockAt(a, b, i, j, k) == \A t \in 0..(k - 1) : a[i + t] = b[j + t]

\* Size of the longest block common to a[alo..ahi] and b[blo..bhi]
LongestSize(a, b, alo, ahi, blo, bhi) ==
    LET sizes == {k \in 0..(ahi - alo + 1) :
                    \E i \in alo..(ahi - k + 1) : \E j \in blo..(bhi - k + 1) :
                        BlockAt(a, b, i, j, k)}
    IN CHOOSE k \in sizes : \A m \in sizes : m <= k

\* find_longest_match: of the longest blocks the one that starts earliest in
\* a, and of those the one that starts earliest in b
FindLongestMatch(a, b, alo, ahi, blo, bhi) ==
    LET k  == LongestSize(a, b, alo, ahi, blo, bhi)
        is == {i \in alo..(ahi - k + 1) :
                  \E j \in blo..(bhi - k + 1) : BlockAt(a, b, i, j, k)}
        i  == CHOOSE x \in is : \A y \in is : x <= y
        js == {j \in blo..(bhi - k + 1) : BlockAt(a, b, i, j, k)}
        j  == CHOOSE x \in js : \A y \in js : x <= y
    IN [i |-> i, j |-> j, size |-> k]

\* Sum of the sizes of get_matching_blocks over a[alo..ahi], b[blo..bhi]
RECURSIVE Matches(_, _, _, _, _, _)
Matches(a, b, alo, ahi, blo, bhi) ==
    IF alo > ahi \/ blo > bhi THEN 0
    ELSE LET m == FindLongestMatch(a, b, alo, ahi, blo, bhi)
         IN IF m.size = 0 THEN 0
            ELSE m.size
                 + Matches(a, b, alo, m.i - 1, blo, m.j - 1)
                 + Matches(a, b, m.i + m.size, ahi, m.j + m.size, bhi)

\* SequenceMatcher(a=x, b=word).ratio() >= 0.2, i.e. 2.0*M/T >= 0.2; an
\* empty pair has ratio 1.0
RatioAtLeastCutoff(x, word) ==
    LET T == Len(x) + Len(word)
        M == Matches(x, word, 1, Len(x), 1, Len(word))
    IN IF T = 0 THEN TRUE ELSE 10 * M >= T

RECURSIVE SelectSeq2(_, _)
\* [x for x in lst if x in keep], keep a set
SelectSeq2(lst, keep) ==
    IF lst = <<>> THEN <<>>
    ELSE IF Head(lst) \in keep THEN <<Head(lst)>> \o SelectSeq2(Tail(lst), keep)
    ELSE SelectSeq2(Tail(lst), keep)

\* difflib.get_close_matches(search, lst, n=10, cutoff=0.2).  The result is
\* used for emptiness and membership only; n = 10 keeps every match of a
\* list of at most 10 candidates.
GetCloseMatches(search, lst) ==
    SelectSeq2(lst, {x \in {lst[i] : i \in 1..Len(lst)} : RatioAtLeastCutoff(x, search)})

----------------------------------------------------------------------------
(* State *)

VARIABLES
    phase,            \* "constructed" after __init__, "ready" after prepare()
    ships,            \* self.ships
    commodities,      \* self.commodities
    systems,          \* self.systems
    planets,          \* self.planets
    satellites,       \* self.satellites
    cities,           \* self.cities
    tradeports,       \* self.tradeports
    ship_names,       \* self.ship_names
    commodity_names,  \* self.commodity_names
    system_names,     \* self.system_names
    tradeport_names,  \* self.tradeport_names
    planet_names,     \* self.planet_names
    satellite_names,  \* self.satellite_names
    city_names,       \* self.city_names
    cache_enabled,    \* self.cache_enabled
    cache,            \* self.cache: function_args, search_matches, readable_objects
    call,             \* the last operation: its name, arguments and outcome
    ncalls            \* number of operations so far

catalog_vars == <<ships, commodities, systems, planets, satellites, cities>>
name_vars == <<ship_names, commodity_names, system_names, tradeport_names,
               planet_names, satellite_names, city_names>>
vars == <<phase, catalog_vars, tradeports, name_vars, cache_enabled, cache,
          call, ncalls>>

EmptyDict == [k \in {} |-> None]

\* d[k] = v for a dict d
DictSet(d, k, v) == [x \in DOMAIN d \cup {k} |-> IF x = k THEN v ELSE d[x]]

\* d.pop(k, None)
DictPop(d, k) == [x \in DOMAIN d \ {k} |-> d[x]]

\* __init__ (lines 65-86)
Constructed ==
    /\ phase = "constructed"
    /\ ships = <<>> /\ commodities = <<>> /\ systems = <<>> /\ planets = <<>>
    /\ satellites = <<>> /\ cities = <<>> /\ tradeports = <<>>
    /\ ship_names = <<>> /\ commodity_names = <<>> /\ system_names = <<>>
    /\ tradeport_names = <<>> /\ planet_names = <<>> /\ satellite_names = <<>>
    /\ city_names = <<>>
    /\ cache_enabled = TRUE
    /\ cache = [function_args |-> EmptyDict, search_matches |-> EmptyDict,
                readable_objects |-> EmptyDict]
    /\ call = [op |-> "init"]
    /\ ncalls = 0

----------------------------------------------------------------------------
(* _find_closest_match *)

NoneStr == <<"N","o","n","e">>          \* the answer 'None' of the oracle

\* The outcome of self.openai.ask: an answer string, or the call raises
OracleRaises == [raises |-> TRUE]
Answer(s) == [answer |-> s]

\* The outcome of the call made while the argument arg_name is resolved: a
\* request's oracle is one outcome for every call it makes, or a function
\* from the argument names to outcomes
OracleFor(oracle, arg_name) ==
    IF "answer" \in DOMAIN oracle \/ "raises" \in DOMAIN oracle THEN oracle
    ELSE oracle[arg_name]

\* checksum = f"{len(lst)}--{lst[0]}--{search}".replace(" ", "")
Checksum(search, lst) ==
    RemoveSpaces(IntToStr(Len(lst)) \o <<"-","-">> \o lst[1] \o <<"-","-">> \o search)

\* closest_matches (lines 513-519)
ClosestMatches(search, lst) ==
    GetCloseMatches(search, lst)
    \o (IF Len(search) < 3
        THEN SelectSeq2(lst, {x \in {lst[i] : i \in 1..Len(lst)} :
                                  Contains(Lower(x), Lower(search))})
        ELSE <<>>)

\* _find_closest_match without lines 557 and 562: an answer that is no match
\* is not remembered
_find_closest_match_ForgettingNone(search, lst, sm, oracle) ==
    IF IsNone(search)
    THEN [result |-> None, raised |-> "", asked |-> FALSE, sm |-> sm]
    ELSE IF InList(search.str, lst)
    THEN [result |-> search, raised |-> "", asked |-> FALSE, sm |-> sm]
    ELSE IF Len(lst) = 0
    THEN [result |-> None, raised |-> "IndexError", asked |-> FALSE, sm |-> sm]
    ELSE IF Checksum(search.str, lst) \in DOMAIN sm
    THEN [result |-> sm[Checksum(search.str, lst)], raised |-> "", asked |-> FALSE,
          sm |-> sm]
    ELSE IF Len(ClosestMatches(search.str, lst)) = 0
    THEN [result |-> None, raised |-> "", asked |-> FALSE, sm |-> sm]
    ELSE IF oracle = OracleRaises
    THEN [result |-> None, raised |-> "OracleError", asked |-> TRUE, sm |-> sm]
    ELSE IF oracle.answer = NoneStr \/ ~InList(oracle.answer, ClosestMatches(search.str, lst))
    THEN [result |-> None, raised |-> "", asked |-> TRUE, sm |-> sm]
    ELSE [result |-> Str(oracle.answer), raised |-> "", asked |-> TRUE,
          sm |-> DictSet(sm, Checksum(search.str, lst), Str(oracle.answer))]

\* Lines 508-568 of _find_closest_match, for the checksum and the closest
\* matches of the search
ClosestMatchFor(search, sm, oracle, checksum, closest_matches) ==
    IF checksum \in DOMAIN sm
    THEN [result |-> sm[checksum], raised |-> "", asked |-> FALSE, sm |-> sm]
    ELSE IF Len(closest_matches) = 0
    THEN [result |-> None, raised |-> "", asked |-> FALSE, sm |-> sm]
    ELSE IF oracle = OracleRaises
    THEN [result |-> None, raised |-> "OracleError", asked |-> TRUE, sm |-> sm]
    ELSE IF oracle.answer = NoneStr
    THEN [result |-> None, raised |-> "", asked |-> TRUE,
          sm |-> DictSet(sm, checksum, None)]
    ELSE IF ~InList(oracle.answer, closest_matches)
    THEN [result |-> None, raised |-> "", asked |-> TRUE,
          sm |-> DictSet(sm, checksum, None)]
    ELSE [result |-> Str(oracle.answer), raised |-> "", asked |-> TRUE,
          sm |-> DictSet(sm, checksum, Str(oracle.answer))]

\* _find_closest_match(search, lst) run on the resolution cache sm, when the
\* oracle, if asked, has the outcome oracle.  result is the returned value
\* (None, or Str(s)), raised the exception that leaves the method ("" if
\* none), asked whether the oracle was called, sm the cache afterwards.
_find_closest_match(search, lst, sm, oracle) ==
    IF IsNone(search)
    THEN [result |-> None, raised |-> "", asked |-> FALSE, sm |-> sm]
    ELSE IF InList(search.str, lst)
    THEN [result |-> search, raised |-> "", asked |-> FALSE, sm |-> sm]
    ELSE IF Len(lst) = 0
    THEN [result |-> None, raised |-> "IndexError", asked |-> FALSE, sm |-> sm]
    ELSE ClosestMatchFor(search, sm, oracle, Checksum(search.str, lst),
                         ClosestMatches(search.str, lst))

----------------------------------------------------------------------------
(* The resolver called on arbitrary candidate lists *)

MaxResolveCalls == 2        \* resolver calls in one behaviour
MaxListLen == 2             \* length of a candidate list

CandidateStrings == {<<"a">>, <<"b">>, <<"a","b">>}
SearchValues == {None} \cup {Str(s) : s \in {<<"A">>, <<"b">>, <<"a"," ","b">>}}
OracleOutcomes ==
    {OracleRaises} \cup {Answer(s) : s \in {<<"a">>, NoneStr, <<"A">>}}

\* Lists of distinct candidates
CandidateLists ==
    UNION {{l \in [1..n -> CandidateStrings] : \A i, j \in 1..n : l[i] = l[j] => i = j} :
           n \in 0..MaxListLen}

\* One call of _find_closest_match(search, lst)
Resolve(search, lst, oracle) ==
    /\ ncalls < MaxResolveCalls
    /\ \E r \in {_find_closest_match(search, lst, cache.search_matches, oracle)} :
          /\ cache' = [cache EXCEPT !.search_matches = r.sm]
          /\ call' = [op |-> "resolve", search |-> search, lst |-> lst,
                      oracle |-> oracle, result |-> r.result, raised |-> r.raised, asked |-> r.asked,
                      wrote |-> r.sm # cache.search_matches,
                      \* the call before was the same call, and returned
                      repeat |-> /\ call.op = "resolve"
                                 /\ call.search = search /\ call.lst = lst
                                 /\ call.raised = "",
                      prev_asked |-> call.op = "resolve" /\ call.asked]
    /\ ncalls' = ncalls + 1
    /\ UNCHANGED <<phase, catalog_vars, tradeports, name_vars, cache_enabled>>

\* self.cache["search_matches"] = {} alone
ClearedCaches_SearchMatches(c) == [c EXCEPT !.search_matches = EmptyDict]

\* for key in self.cache: self.cache[key] = {}
ClearedCaches(c) == [key \in DOMAIN c |-> EmptyDict]

\* The cache clearing of _reload_current_commodity_prices (lines 995-996)
ClearCaches ==
    /\ ncalls < MaxResolveCalls
    /\ cache' = ClearedCaches(cache)
    /\ call' = [op |-> "clear"]
    /\ ncalls' = ncalls + 1
    /\ UNCHANGED <<phase, catalog_vars, tradeports, name_vars, cache_enabled>>

NextResolve ==
    \/ \E search \in SearchValues, lst \in CandidateLists, oracle \in OracleOutcomes :
          Resolve(search, lst, oracle)
    \/ ClearCaches

SpecResolve == Constructed /\ [][NextResolve]_vars

----------------------------------------------------------------------------
(* Claims about the resolver *)

\* C1: whenever the search string equals a member of the candidate list when
\* compared case-insensitively, _find_closest_match returns that member
\* without asking the oracle and without writing the resolution cache.
C1_CaseInsensitiveExactMatch ==
    (/\ call.op = "resolve"
     /\ ~IsNone(call.search)
     /\ \E i \in 1..Len(call.lst) : Lower(call.lst[i]) = Lower(call.search.str))
    => /\ call.raised = ""
       /\ ~IsNone(call.result)
       /\ Lower(call.result.str) = Lower(call.search.str)
       /\ ~call.asked
       /\ ~call.wrote

\* C2: every non-null value returned by _find_closest_match(search, lst),
\* those served from the resolution cache included, is a member of lst, and
\* is not the search string when the search string is not in lst.
C2_ResultInCandidates ==
    (call.op = "resolve" /\ call.raised = "" /\ ~IsNone(call.result))
    => /\ InList(call.result.str, call.lst)
       /\ (~InList(call.search.str, call.lst) => call.result # call.search)

\* C3: when a call of _find_closest_match that returned is followed directly
\* by a call with the same arguments, the second call returns the same value
\* and does not ask the oracle, whatever the oracle would answer.
C3_CacheIdempotent ==
    [][(/\ call.op = "resolve" /\ call.raised = ""
        /\ call'.op = "resolve"
        /\ call'.search = call.search /\ call'.lst = call.lst)
       => (/\ call'.raised = ""
           /\ call'.result = call.result
           /\ ~call'.asked)]_vars

\* A repeated call whose first call asked the oracle and got a match
C3_Witness ==
    /\ call.op = "resolve" /\ call.repeat /\ call.prev_asked
    /\ ~call.asked /\ ~IsNone(call.result)

----------------------------------------------------------------------------
(* Session argument cache *)

Current == <<"c","u","r","r","e","n","t">>

\* _get_function_arg_from_cache(arg_name, arg_value), given self.cache_enabled
\* and self.cache["function_args"]
_get_function_arg_from_cache(enabled, function_args, arg_name, arg_value) ==
    IF enabled = FALSE THEN arg_value
    ELSE IF IsNone(arg_value) \/ (IsStr(arg_value) /\ Lower(arg_value.str) = Current)
    THEN IF arg_name \in DOMAIN function_args THEN function_args[arg_name] ELSE None
    ELSE arg_value

\* _set_function_arg_to_cache(arg_name, arg_value): the function_args afterwards
_set_function_arg_to_cache(enabled, function_args, arg_name, arg_value) ==
    IF enabled = FALSE THEN function_args
    ELSE IF ~IsNone(arg_value) THEN DictSet(function_args, arg_name, arg_value)
    ELSE DictPop(function_args, arg_name)

----------------------------------------------------------------------------
(* Catalog lookups *)

\* next((x for x in lst if x["name"].lower() == name.lower()), None), after
\* "if not name: return None"; name is None or a Str
ByName(lst, name) ==
    IF IsNone(name) \/ name.str = <<>> THEN None
    ELSE LET hits == {i \in 1..Len(lst) : Lower(lst[i].name) = Lower(name.str)}
         IN IF hits = {} THEN None
            ELSE lst[CHOOSE i \in hits : \A j \in hits : i <= j]

_get_ship_by_name(name) == ByName(ships, name)
_get_tradeport_by_name(name) == ByName(tradeports, name)
_get_planet_by_name(name) == ByName(planets, name)
_get_city_by_name(name) == ByName(cities, name)
_get_satellite_by_name(name) == ByName(satellites, name)
_get_system_by_name(name) == ByName(systems, name)
_get_commodity_by_name(name) == ByName(commodities, name)

\* next((x["name"] for x in lst if x["code"].lower() == code.lower()), "")
NameByCode(lst, code) ==
    IF code = <<>> THEN <<>>
    ELSE LET hits == {i \in 1..Len(lst) : Lower(lst[i].code) = Lower(code)}
         IN IF hits = {} THEN <<>>
            ELSE lst[CHOOSE i \in hits : \A j \in hits : i <= j].name

\* [t for t in self.tradeports if t[field] == code]
RECURSIVE TradeportsWhere(_, _, _)
TradeportsWhere(tps, field, code) ==
    IF tps = <<>> THEN <<>>
    ELSE (IF Head(tps)[field] = code THEN <<Head(tps)>> ELSE <<>>)
         \o TradeportsWhere(Tail(tps), field, code)

\* _get_tradeports_by_positionname(name), direct = False
_get_tradeports_by_positionname(name) ==
    IF IsNone(name) \/ name.str = <<>> THEN <<>>
    ELSE LET tradeport == _get_tradeport_by_name(name)
             city == _get_city_by_name(name)
             satellite == _get_satellite_by_name(name)
             planet == _get_planet_by_name(name)
             system == _get_system_by_name(name)
         IN IF ~IsNone(system) THEN TradeportsWhere(tradeports, "system", system.code)
            ELSE IF ~IsNone(planet) THEN TradeportsWhere(tradeports, "planet", planet.code)
            ELSE IF ~IsNone(satellite)
                 THEN TradeportsWhere(tradeports, "satellite", satellite.code)
            ELSE IF ~IsNone(city) THEN TradeportsWhere(tradeports, "city", city.code)
            ELSE IF ~IsNone(tradeport) THEN <<tradeport>>
            ELSE <<>>

----------------------------------------------------------------------------
(* Price lookups.  tradeport["prices"] is a dict in insertion order: a      *)
(* sequence of listings [code, operation, price_buy, price_sell, kind,     *)
(* name] with distinct codes.                                              *)

\* The first listing of the tradeport for the commodity code with the
\* operation, or None
ListingFor(tradeport, code, operation) ==
    LET hits == {i \in 1..Len(tradeport.prices) :
                    /\ tradeport.prices[i].code = code
                    /\ tradeport.prices[i].operation = operation}
    IN IF hits = {} THEN None
       ELSE tradeport.prices[CHOOSE i \in hits : \A j \in hits : i <= j]

\* What a lookup yields when it raises the exception e
Raised(e) == [raised |-> e]

\* _get_data_location_sellprice(tradeport, commodity, ship, amount);
\* tradeport["prices"] raises KeyError for a tradeport without prices
_get_data_location_sellprice(tradeport, commodity, ship, amount) ==
    IF ~IsNone(ship) /\ ship.hull_trading = TRUE /\ tradeport.hull_trading = FALSE
    THEN None
    ELSE IF "prices" \notin DOMAIN tradeport THEN Raised("KeyError")
    ELSE LET price == ListingFor(tradeport, commodity.code, "sell")
         IN IF IsNone(price) THEN None ELSE Num(price.price_sell * amount)

\* _get_data_location_buyprice(tradeport, commodity, ship, amount)
_get_data_location_buyprice(tradeport, commodity, ship, amount) ==
    IF ~IsNone(ship) /\ ship.hull_trading = TRUE /\ tradeport.hull_trading = FALSE
    THEN None
    ELSE IF "prices" \notin DOMAIN tradeport THEN Raised("KeyError")
    ELSE LET price == ListingFor(tradeport, commodity.code, "buy")
         IN IF IsNone(price) THEN None ELSE Num(price.price_buy * amount)

----------------------------------------------------------------------------
(* Argument resolution shared by the route handlers *)

\* The candidate list of every location argument
LocationNames ==
    tradeport_names \o city_names \o satellite_names \o planet_names \o system_names

\* The else branch of the pattern below, r2 the second _find_closest_match
ResolveArgStored(enabled, m, value, arg_name, r2) ==
    IF r2.raised # ""
    THEN [value |-> value, misunderstood |-> FALSE, fa |-> m.fa, sm |-> r2.sm,
          raised |-> r2.raised]
    ELSE [value |-> r2.result, misunderstood |-> FALSE,
          fa |-> _set_function_arg_to_cache(enabled, m.fa, arg_name, r2.result),
          sm |-> r2.sm, raised |-> ""]

\* The condition of the pattern below, r1 the first _find_closest_match
ResolveArgChecked(enabled, m, value, lst, arg_name, oracle, r1) ==
    IF r1.raised # ""
    THEN [value |-> value, misunderstood |-> FALSE, fa |-> m.fa, sm |-> r1.sm,
          raised |-> r1.raised]
    ELSE IF IsNone(r1.result)
    THEN [value |-> value, misunderstood |-> TRUE, fa |-> m.fa, sm |-> r1.sm,
          raised |-> ""]
    ELSE ResolveArgStored(enabled, m, value, arg_name,
                          _find_closest_match(value, lst, r1.sm, oracle))

\* The pattern
\*     if value is not None and self._find_closest_match(value, lst) is None:
\*         misunderstood.append(...)
\*     else:
\*         value = self._find_closest_match(value, lst)
\*         self._set_function_arg_to_cache(arg_name, value)
\* run on the caches m = [fa, sm, ...]: fa and sm are function_args and
\* search_matches afterwards, raised the exception that left
\* _find_closest_match ("" if none).
ResolveArg(enabled, m, value, lst, arg_name, oracle) ==
    IF IsNone(value)
    THEN [value |-> None, misunderstood |-> FALSE,
          fa |-> _set_function_arg_to_cache(enabled, m.fa, arg_name, None),
          sm |-> m.sm, raised |-> ""]
    ELSE ResolveArgChecked(enabled, m, value, lst, arg_name, oracle,
                           _find_closest_match(value, lst, m.sm, oracle))

\* The four arguments the route handlers resolve, in their order
TradeArgs(shipName, a) ==
    <<[label |-> "Ship", arg_name |-> "shipName",
       value |-> shipName, lst |-> ship_names],
      [label |-> "Position Start", arg_name |-> "locationName",
       value |-> a.positionStartName, lst |-> LocationNames],
      [label |-> "Position End", arg_name |-> "locationNameTarget",
       value |-> a.positionEndName, lst |-> LocationNames],
      [label |-> "Commodity", arg_name |-> "commodityName",
       value |-> a.commodityName, lst |-> commodity_names]>>

\* acc after one argument was resolved with the result r
Resolved(acc, arg, r) ==
    [fa |-> r.fa, sm |-> r.sm, raised |-> r.raised,
     values |-> Append(acc.values, r.value),
     misunderstood |-> IF r.misunderstood
                       THEN Append(acc.misunderstood,
                                   [label |-> arg.label, value |-> r.value])
                       ELSE acc.misunderstood]

\* The pattern for the arguments args from the i-th on; an exception ends it
RECURSIVE ResolveArgs(_, _, _, _, _)
ResolveArgs(enabled, acc, args, i, oracle) ==
    IF i > Len(args) \/ acc.raised # "" THEN acc
    ELSE ResolveArgs(enabled,
                     Resolved(acc, args[i],
                              ResolveArg(enabled, acc, args[i].value, args[i].lst,
                                         args[i].arg_name,
                                         OracleFor(oracle, args[i].arg_name))),
                     args, i + 1, oracle)

\* Nothing resolved yet
Unresolved(fa, sm) ==
    [fa |-> fa, sm |-> sm, raised |-> "", values |-> <<>>, misunderstood |-> <<>>]

\* if illegalCommoditesAllowed is None: ... else: _set_function_arg_to_cache(...)
IllegalStored(enabled, fa, illegal) ==
    IF IsNone(illegal) THEN fa
    ELSE _set_function_arg_to_cache(enabled, fa, "illegalCommoditesAllowed", illegal)

\* int(x) of a number given in halves (x = h / 2): truncation towards zero
IntOfHalves(h) == IF h >= 0 THEN h \div 2 ELSE 0 - ((0 - h) \div 2)

\* round(x) of a non-negative number given in halves: Python rounds a tie to
\* the even neighbour
RoundHalves(h) ==
    IF h % 2 = 0 THEN h \div 2
    ELSE IF (h \div 2) % 2 = 0 THEN h \div 2 ELSE (h \div 2) + 1

Min(a, b) == IF a <= b THEN a ELSE b

\* The resolved arguments of a route request: the names found by the
\* resolver, moneyToSpend and freeCargoSpace after
\*     if x is not None and int(x) < 1: x = None
\* and the illegal flag with its default
Query(r, a, illegal) ==
    [shipName |-> r.values[1],
     positionStartName |-> r.values[2],
     positionEndName |-> r.values[3],
     commodityName |-> r.values[4],
     moneyToSpend |-> IF ~IsNone(a.moneyToSpend) /\ a.moneyToSpend.num < 1
                      THEN None ELSE a.moneyToSpend,
     freeCargoSpace |-> IF /\ ~IsNone(a.freeCargoSpace)
                           /\ IntOfHalves(a.freeCargoSpace.num) < 1
                        THEN None ELSE a.freeCargoSpace,
     illegalCommoditesAllowed |-> IF IsNone(illegal) THEN Bool(TRUE) ELSE illegal]

(* _get_best_trading_route: the search (lines 2332-2392).  Cargo amounts   *)
(* and the buy and sell totals are counted in halves (cargo2 = 2 * cargo), *)
(* since freeCargoSpace is a float; prices, money and profit are integers. *)

EmptyRoute ==
    [start |-> <<>>, end |-> <<>>, commodity |-> None, profit |-> 0,
     cargo2 |-> 0, buy2 |-> 0, sell2 |-> 0, raised |-> ""]

\* [t for t in tps if t["hull_trading"] is True]
RECURSIVE HullOnly(_)
HullOnly(tps) ==
    IF tps = <<>> THEN <<>>
    ELSE (IF Head(tps).hull_trading = TRUE THEN <<Head(tps)>> ELSE <<>>)
         \o HullOnly(Tail(tps))

\* commodities without the test of line 2348
RECURSIVE BuyListings_AnyKind(_, _, _)
BuyListings_AnyKind(prices, commodity_filter, illegalCommoditesAllowed) ==
    IF prices = <<>> THEN <<>>
    ELSE (IF /\ Head(prices).operation = "buy"
             /\ (IsNone(commodity_filter) \/ commodity_filter.code = Head(prices).code)
          THEN <<Head(prices)>> ELSE <<>>)
         \o BuyListings_AnyKind(Tail(prices), commodity_filter, illegalCommoditesAllowed)

\* commodities (lines 2343-2350): the listings of the start tradeport that
\* the player can buy, filtered by commodity and legality
RECURSIVE BuyListings(_, _, _)
BuyListings(prices, commodity_filter, illegalCommoditesAllowed) ==
    IF prices = <<>> THEN <<>>
    ELSE LET price == Head(prices)
         IN (IF /\ price.operation = "buy"
                /\ (IsNone(commodity_filter) \/ commodity_filter.code = price.code)
                /\ (illegalCommoditesAllowed = TRUE \/ price.kind # "Drug")
             THEN <<price>> ELSE <<>>)
            \o BuyListings(Tail(prices), commodity_filter, illegalCommoditesAllowed)

\* list.append without the test `not in` of lines 2386 and 2388
AppendNew_Untested(lst, x) == Append(lst, x)

\* if x not in lst: lst.append(x)
AppendNew(lst, x) == IF InList(x, lst) THEN lst ELSE Append(lst, x)

\* the tie test without the comparison of lines 2385-2386
SameCommodity_Untested(best, price) == TRUE

\* best_route["commodity"]["short_name"] == price["short_name"]
SameCommodity(best, price) == best.commodity.code = price.code

\* The body of the innermost loop (lines 2356-2391) for one listing of the
\* end tradeport and one buyable listing of the start tradeport
SearchStep(best, tradeport_start, commodity, tradeport_end, price, money, cargo_space2) ==
    IF best.raised # "" THEN best
    ELSE IF ~(/\ commodity.code = price.code
              /\ price.operation = "sell"
              /\ price.price_sell > commodity.price_buy)
    THEN best
    ELSE IF ~IsNone(money) /\ commodity.price_buy = 0
    THEN [best EXCEPT !.raised = "ZeroDivisionError"]
    ELSE LET cargo_by_money2 == IF IsNone(money) THEN cargo_space2
                                ELSE 2 * (money.num \div commodity.price_buy)
             cargo2 == Min(cargo_by_money2, cargo_space2)
             profit == RoundHalves(cargo2 * (price.price_sell - commodity.price_buy))
         IN IF cargo2 < 2 THEN best
            ELSE IF profit > best.profit
            THEN [start |-> <<tradeport_start>>, end |-> <<tradeport_end>>,
                  commodity |-> price, profit |-> profit, cargo2 |-> cargo2,
                  buy2 |-> commodity.price_buy * cargo2,
                  sell2 |-> price.price_sell * cargo2, raised |-> ""]
            ELSE IF profit = best.profit /\ IsNone(best.commodity)
            THEN [best EXCEPT !.raised = "KeyError"]    \* {}["short_name"]
            ELSE IF profit = best.profit /\ SameCommodity(best, price)
            THEN [best EXCEPT !.start = AppendNew(@, tradeport_start),
                              !.end = AppendNew(@, tradeport_end)]
            ELSE best

\* for commodity in commodities, from the j-th on (buyable is that list)
RECURSIVE SearchCommodities(_, _, _, _, _, _, _, _)
SearchCommodities(best, ts, buyable, j, te, price, money, cargo_space2) ==
    IF j > Len(buyable) THEN best
    ELSE SearchCommodities(
            SearchStep(best, ts, buyable[j], te, price, money, cargo_space2),
            ts, buyable, j + 1, te, price, money, cargo_space2)

\* for attr, price in tradeport_end["prices"].items(), from the i-th on
RECURSIVE SearchPrices(_, _, _, _, _, _, _)
SearchPrices(best, ts, buyable, te, i, money, cargo_space2) ==
    IF i > Len(te.prices) THEN best
    ELSE SearchPrices(
            SearchCommodities(best, ts, buyable, 1, te, te.prices[i], money, cargo_space2),
            ts, buyable, te, i + 1, money, cargo_space2)

\* for tradeport_end in end_tradeports
RECURSIVE SearchEnds(_, _, _, _, _, _)
SearchEnds(best, ts, buyable, ends, money, cargo_space2) ==
    IF ends = <<>> THEN best
    ELSE SearchEnds(SearchPrices(best, ts, buyable, Head(ends), 1, money, cargo_space2),
                    ts, buyable, Tail(ends), money, cargo_space2)

\* for tradeport_start in start_tradeports
RECURSIVE SearchStarts(_, _, _, _, _, _, _)
SearchStarts(best, starts, ends, commodity_filter, illegalCommoditesAllowed, money, cargo_space2) ==
    IF starts = <<>> THEN best
    ELSE SearchStarts(
            SearchEnds(best, Head(starts),
                       BuyListings(Head(starts).prices, commodity_filter,
                                   illegalCommoditesAllowed),
                       ends, money, cargo_space2),
            Tail(starts), ends, commodity_filter, illegalCommoditesAllowed,
            money, cargo_space2)

----------------------------------------------------------------------------
(* Output conversion *)

\* _get_converted_tradeport_for_output(tradeport): the readable object, taken
\* from self.cache["readable_objects"] when it is there
ReadableKey(tradeport) == <<"tradeport", tradeport.code>>

ConvertedTradeport(ro, tradeport) ==
    IF ReadableKey(tradeport) \in DOMAIN ro THEN ro[ReadableKey(tradeport)]
    ELSE [type |-> "Tradeport", name |-> tradeport.name,
          system |-> NameByCode(systems, tradeport.system),
          planet |-> NameByCode(planets, tradeport.planet),
          satellite |-> NameByCode(satellites, tradeport.satellite),
          city |-> NameByCode(cities, tradeport.city)]

\* readable_objects after _get_tradeport_route_description of every tradeport
RECURSIVE DescribeAll(_, _)
DescribeAll(ro, tps) ==
    IF tps = <<>> THEN ro
    ELSE DescribeAll(DictSet(ro, ReadableKey(Head(tps)), ConvertedTradeport(ro, Head(tps))),
                     Tail(tps))

\* The 'Trade Point' of the descriptions joined by " OR "
Descriptions(ro, tps) == [i \in 1..Len(tps) |-> ConvertedTradeport(ro, tps[i]).name]

aUEC == <<" ","a","U","E","C">>

\* f"{profit} aUEC"
FormatProfit(profit) == IntToStr(profit) \o aUEC

\* int(s) of a string of decimal digits
RECURSIVE StrToInt(_)
StrToInt(s) ==
    IF s = <<>> THEN 0
    ELSE 10 * StrToInt(SubSeq(s, 1, Len(s) - 1))
         + ((CHOOSE d \in 1..10 : Digits[d] = s[Len(s)]) - 1)

\* int(k["profit"].split(" ")[0])
ParseProfit(s) ==
    LET spaces == {i \in 1..Len(s) : s[i] = " "}
        first == IF spaces = {} THEN Len(s) + 1
                 ELSE CHOOSE i \in spaces : \A j \in spaces : i <= j
    IN StrToInt(SubSeq(s, 1, first - 1))

Text(t) == [kind |-> "text", text |-> t]

----------------------------------------------------------------------------
(* _get_best_trading_route *)

\* What a handler leaves behind: its return value, the three caches, and the
\* exception that left it ("" if it returned)
Outcome(response, fa, sm, ro, raised) ==
    [response |-> response, fa |-> fa, sm |-> sm, ro |-> ro, raised |-> raised]

\* cargo_space without the override of lines 2269-2272
CargoSpace2_OfShip(ship, freeCargoSpace) == 2 * ship.scu

\* cargo_space (lines 2268-2272), in halves
CargoSpace2(ship, freeCargoSpace) ==
    IF ~IsNone(freeCargoSpace) /\ freeCargoSpace.num # 0
    THEN (IF freeCargoSpace.num > 2 * ship.scu THEN 2 * ship.scu
          ELSE freeCargoSpace.num)
    ELSE 2 * ship.scu

\* No hull-trading filter
HullFiltered_All(ship, tps) == tps

\* The hull-trading filter of lines 2282-2287 and 2317-2322
HullFiltered(ship, tps) == IF ship.hull_trading = TRUE THEN HullOnly(tps) ELSE tps

\* Lines 2400-2420: the route as it is returned, ro the readable_objects
\* after the descriptions of its tradeports
RouteDescribed(m, best_route, ro) ==
    Outcome([kind |-> "route",
             start |-> Descriptions(ro, best_route.start),
             end |-> Descriptions(ro, best_route.end),
             commodity |-> best_route.commodity.name,
             profit |-> FormatProfit(best_route.profit),
             cargo2 |-> best_route.cargo2,
             buy2 |-> best_route.buy2,
             sell2 |-> best_route.sell2],
            m.fa, m.sm, ro, "")

\* Lines 2393-2398, best_route the result of the search
RouteFound(m, q, best_route) ==
    IF best_route.raised # "" THEN Outcome(None, m.fa, m.sm, m.ro, best_route.raised)
    ELSE IF Len(best_route.start) = 0
    THEN Outcome([kind |-> "text", text |-> "No route found",
                  ship |-> q.shipName, start |-> q.positionStartName],
                 m.fa, m.sm, m.ro, "")
    ELSE RouteDescribed(m, best_route,
                        DescribeAll(DescribeAll(m.ro, best_route.end), best_route.start))

\* Lines 2328-2392: lines 2312-2392 without the test for the same position
RouteToEnds_Unchecked(m, q, ship, cargo_space2, start_tradeports, end_tradeports) ==
    IF cargo_space2 <= 0 \/ (~IsNone(q.moneyToSpend) /\ q.moneyToSpend.num <= 0)
    THEN Outcome(Text("You dont have enough cargo space or money to trade."),
                 m.fa, m.sm, m.ro, "")
    ELSE RouteFound(m, q,
                    SearchStarts(EmptyRoute, start_tradeports,
                                 HullFiltered(ship, end_tradeports),
                                 _get_commodity_by_name(q.commodityName),
                                 q.illegalCommoditesAllowed.bool,
                                 q.moneyToSpend, cargo_space2))

\* Lines 2312-2392, end_tradeports before the hull-trading filter
RouteToEnds(m, q, ship, cargo_space2, start_tradeports, end_tradeports) ==
    IF /\ ~IsNone(q.positionEndName) /\ q.positionEndName.str # <<>>
       /\ Len(end_tradeports) = 1 /\ Len(start_tradeports) = 1
       /\ end_tradeports[1].code = start_tradeports[1].code
    THEN Outcome(Text("Start and end position are the same."), m.fa, m.sm, m.ro, "")
    ELSE IF cargo_space2 <= 0 \/ (~IsNone(q.moneyToSpend) /\ q.moneyToSpend.num <= 0)
    THEN Outcome(Text("You dont have enough cargo space or money to trade."),
                 m.fa, m.sm, m.ro, "")
    ELSE RouteFound(m, q,
                    SearchStarts(EmptyRoute, start_tradeports,
                                 HullFiltered(ship, end_tradeports),
                                 _get_commodity_by_name(q.commodityName),
                                 q.illegalCommoditesAllowed.bool,
                                 q.moneyToSpend, cargo_space2))

\* end_tradeports with lines 2307-2310 taking every tradeport of the catalog
EndTradeports_Everywhere(start_tradeports, end_given) ==
    IF Len(end_given) < 1 THEN tradeports ELSE end_given

\* end_tradeports after lines 2307-2310: when no end tradeport is given,
\* the tradeports in the system of the first start tradeport
EndTradeports(start_tradeports, end_given) ==
    IF Len(end_given) < 1
    THEN TradeportsWhere(tradeports, "system", start_tradeports[1].system)
    ELSE end_given

\* Lines 2288-2310, start_tradeports after the hull-trading filter and
\* end_given = _get_tradeports_by_positionname(positionEndName)
RouteFromStarts(m, q, ship, start_tradeports, end_given) ==
    IF Len(start_tradeports) < 1
    THEN Outcome(Text(IF ship.hull_trading = TRUE
                      THEN "No valid start position given. Make sure to provide a start point compatible with your ship."
                      ELSE "No valid start position given. Try a different position or just name a planet or star system."),
                 m.fa, m.sm, m.ro, "")
    ELSE IF Len(end_given) < 1 /\ ~IsNone(q.positionEndName)
    THEN Outcome(Text("No valid end position given."), m.fa, m.sm, m.ro, "")
    ELSE RouteToEnds(m, q, ship, CargoSpace2(ship, q.freeCargoSpace), start_tradeports,
                     EndTradeports(start_tradeports, end_given))

\* Lines 2267-2287; ship["scu"] of no ship is a TypeError
RouteOfShip(m, q, ship) ==
    IF IsNone(ship) THEN Outcome(None, m.fa, m.sm, m.ro, "TypeError")
    ELSE RouteFromStarts(m, q, ship,
                         HullFiltered(ship, _get_tradeports_by_positionname(q.positionStartName)),
                         _get_tradeports_by_positionname(q.positionEndName))

\* Lines 2267-2420, for the resolved arguments q
BestRouteSearch(m, q) == RouteOfShip(m, q, _get_ship_by_name(q.shipName))

\* Lines 2251-2265, r the outcome of the argument resolution
RouteResolved(enabled, m, a, illegal, r) ==
    IF r.raised # "" THEN Outcome(None, r.fa, r.sm, m.ro, r.raised)
    ELSE IF Len(r.misunderstood) > 0
    THEN Outcome([kind |-> "text",
                  text |-> "These given parameters do not exist in game. Exactly ask for clarification of these values: ",
                  misunderstood |-> r.misunderstood],
                 _set_function_arg_to_cache(enabled, r.fa, "money",
                                            Query(r, a, illegal).moneyToSpend),
                 r.sm, m.ro, "")
    ELSE BestRouteSearch([fa |-> _set_function_arg_to_cache(
                                     enabled, r.fa, "money",
                                     Query(r, a, illegal).moneyToSpend),
                          sm |-> r.sm, ro |-> m.ro],
                         Query(r, a, illegal))

\* Lines 2171-2249, shipName and illegal the values from the session cache
RouteRequested(enabled, m, a, oracle, shipName, illegal) ==
    IF IsNone(shipName)
    THEN Outcome(Text("No ship given. Ask for a ship. Dont say sorry."),
                 IllegalStored(enabled, m.fa, illegal), m.sm, m.ro, "")
    ELSE RouteResolved(enabled, m, a, illegal,
                       ResolveArgs(enabled,
                                   Unresolved(IllegalStored(enabled, m.fa, illegal), m.sm),
                                   TradeArgs(shipName, a), 1, oracle))

\* _get_best_trading_route(shipName, moneyToSpend, positionStartName,
\* freeCargoSpace, positionEndName, commodityName, illegalCommoditesAllowed),
\* the arguments in the record a, run with self.cache_enabled = enabled on
\* the caches m = [fa, sm, ro]
_get_best_trading_route(enabled, m, a, oracle) ==
    RouteRequested(enabled, m, a, oracle,
                   _get_function_arg_from_cache(enabled, m.fa, "shipName", a.shipName),
                   _get_function_arg_from_cache(enabled, m.fa, "illegalCommoditesAllowed",
                                                a.illegalCommoditesAllowed))

----------------------------------------------------------------------------
(* _get_multiple_best_trading_routes *)

\* The optimizer sub-calls (lines 2044-2059 and 2085-2099): before each one
\* cache_enabled is set to False, after it to True; an exception leaves the
\* loop at once.  subs are the argument records of the sub-calls in order,
\* o the outcome of the first of them.
\* The sub-calls without lines 2045 and 2085: the cache stays enabled
SubCallCacheEnabled_Unchanged == TRUE

\* self.cache_enabled = False before each sub-call (lines 2045 and 2085)
SubCallCacheEnabled == FALSE

RECURSIVE SubCalls(_, _, _, _, _)
RECURSIVE SubCallDone(_, _, _, _)
SubCalls(m, enabled, subs, trading_routes, oracle) ==
    IF subs = <<>>
    THEN [m |-> m, enabled |-> enabled, trading_routes |-> trading_routes, raised |-> ""]
    ELSE SubCallDone(Tail(subs), trading_routes, oracle,
                     _get_best_trading_route(SubCallCacheEnabled, m, Head(subs), oracle))

SubCallDone(subs, trading_routes, oracle, o) ==
    IF o.raised # ""
    THEN [m |-> [fa |-> o.fa, sm |-> o.sm, ro |-> o.ro], enabled |-> FALSE,
          trading_routes |-> trading_routes, raised |-> o.raised]
    ELSE SubCalls([fa |-> o.fa, sm |-> o.sm, ro |-> o.ro], TRUE, subs,
                  IF o.response.kind = "route"
                  THEN Append(trading_routes, o.response) ELSE trading_routes,
                  oracle)

\* dict membership and lookup: code in tradeport["prices"] and
\* tradeport["prices"][code]["operation"] == operation
HasListing(tradeport, code, operation) ==
    \E i \in 1..Len(tradeport.prices) :
        tradeport.prices[i].code = code /\ tradeport.prices[i].operation = operation

RECURSIVE WithListing(_, _, _)
WithListing(tps, code, operation) ==
    IF tps = <<>> THEN <<>>
    ELSE (IF HasListing(Head(tps), code, operation) THEN <<Head(tps)>> ELSE <<>>)
         \o WithListing(Tail(tps), code, operation)

\* The sub-calls of lines 2073-2099: one for every start tradeport that
\* lists the commodity to buy and every end tradeport that lists it to sell
PairArgs(q, start_tradeports, end_tradeports) ==
    [k \in 1..(Len(start_tradeports) * Len(end_tradeports)) |->
        [q EXCEPT
            !.positionStartName =
                Str(start_tradeports[((k - 1) \div Len(end_tradeports)) + 1].name),
            !.positionEndName =
                Str(end_tradeports[((k - 1) % Len(end_tradeports)) + 1].name)]]

\* The sub-calls of lines 2043-2099 for the resolved arguments q
SubArgs(q) ==
    IF IsNone(q.commodityName)
    THEN [i \in 1..Len(commodity_names) |->
             [q EXCEPT !.commodityName = Str(commodity_names[i])]]
    ELSE PairArgs(q,
                  WithListing(_get_tradeports_by_positionname(q.positionStartName),
                              _get_commodity_by_name(q.commodityName).code, "buy"),
                  WithListing(IF ~IsNone(q.positionEndName)
                              THEN _get_tradeports_by_positionname(q.positionEndName)
                              ELSE tradeports,
                              _get_commodity_by_name(q.commodityName).code, "sell"))

\* sorted(trading_routes, key=profit, reverse=True): stable, by insertion
RECURSIVE InsertByProfit(_, _)
InsertByProfit(sorted, route) ==
    IF sorted = <<>> THEN <<route>>
    ELSE IF ParseProfit(Head(sorted).profit) >= ParseProfit(route.profit)
    THEN <<Head(sorted)>> \o InsertByProfit(Tail(sorted), route)
    ELSE <<route>> \o sorted

RECURSIVE SortByProfit(_)
SortByProfit(routes) ==
    IF routes = <<>> THEN <<>>
    ELSE InsertByProfit(SortByProfit(SubSeq(routes, 1, Len(routes) - 1)),
                        routes[Len(routes)])

\* lst[:k] of Python
Slice(lst, k) ==
    IF k >= 0 THEN SubSeq(lst, 1, Min(k, Len(lst)))
    ELSE SubSeq(lst, 1, IF Len(lst) + k > 0 THEN Len(lst) + k ELSE 0)

\* Lines 2107-2108
Truncated(trading_routes, maximalNumberOfRoutes) ==
    IF Len(trading_routes) > maximalNumberOfRoutes
    THEN Slice(trading_routes, maximalNumberOfRoutes)
    ELSE trading_routes

\* Lines 2110-2132, trading_routes sorted and truncated.  Besides the
\* outcome, enabled is self.cache_enabled afterwards.
RoutesReturned(a, done, trading_routes) ==
    [o |-> Outcome(IF Len(trading_routes) > 0
                   THEN [kind |-> "routes", routes |-> trading_routes,
                         additional |->
                            IF Len(trading_routes) = a.maximalNumberOfRoutes
                            THEN "more"
                            ELSE IF Len(trading_routes) < a.maximalNumberOfRoutes
                            THEN "only" ELSE ""]
                   ELSE Text("No trading routes found."),
                   done.m.fa, done.m.sm, done.m.ro, ""),
     enabled |-> done.enabled]

\* Lines 2101-2132, done the outcome of the sub-calls
RoutesDone(a, done) ==
    IF done.raised # ""
    THEN [o |-> Outcome(None, done.m.fa, done.m.sm, done.m.ro, done.raised),
          enabled |-> done.enabled]
    ELSE RoutesReturned(a, done,
                        Truncated(SortByProfit(done.trading_routes),
                                  a.maximalNumberOfRoutes))

\* Lines 2042-2132, for the resolved arguments q; commodity["code"] of no
\* commodity is a TypeError
MultipleRoutesSearch(enabled, m, a, q, oracle) ==
    IF /\ ~IsNone(q.commodityName)
       /\ IsNone(_get_commodity_by_name(q.commodityName))
       /\ Len(_get_tradeports_by_positionname(q.positionStartName)) > 0
    THEN [o |-> Outcome(None, m.fa, m.sm, m.ro, "TypeError"), enabled |-> enabled]
    ELSE RoutesDone(a, SubCalls(m, enabled, SubArgs(q), <<>>, oracle))

\* Lines 2030-2040, r the outcome of the argument resolution
RoutesResolved(enabled, m, a, illegal, oracle, r) ==
    IF r.raised # ""
    THEN [o |-> Outcome(None, r.fa, r.sm, m.ro, r.raised), enabled |-> enabled]
    ELSE IF Len(r.misunderstood) > 0
    THEN [o |-> Outcome([kind |-> "text",
                         text |-> "These given parameters do not exist in game. Exactly ask for clarification of these values: ",
                         misunderstood |-> r.misunderstood],
                        _set_function_arg_to_cache(enabled, r.fa, "money",
                                                   Query(r, a, illegal).moneyToSpend),
                        r.sm, m.ro, ""),
          enabled |-> enabled]
    ELSE MultipleRoutesSearch(enabled,
                              [fa |-> _set_function_arg_to_cache(
                                          enabled, r.fa, "money",
                                          Query(r, a, illegal).moneyToSpend),
                               sm |-> r.sm, ro |-> m.ro],
                              a, Query(r, a, illegal), oracle)

\* Lines 1939-2024, shipName and illegal the values from the session cache
RoutesRequested(enabled, m, a, oracle, shipName, illegal) ==
    IF IsNone(shipName)
    THEN [o |-> Outcome(Text("No ship given. Ask for a ship. Dont say sorry."),
                        IllegalStored(enabled, m.fa, illegal), m.sm, m.ro, ""),
          enabled |-> enabled]
    ELSE IF IsNone(a.positionStartName)
    THEN [o |-> Outcome(Text("No start position given. Ask for a start position. (Station, Planet, Satellite, City or System)"),
                        IllegalStored(enabled, m.fa, illegal), m.sm, m.ro, ""),
          enabled |-> enabled]
    ELSE RoutesResolved(enabled, m, a, illegal, oracle,
                        ResolveArgs(enabled,
                                    Unresolved(IllegalStored(enabled, m.fa, illegal), m.sm),
                                    TradeArgs(shipName, a), 1, oracle))

\* _get_multiple_best_trading_routes(..., maximalNumberOfRoutes), the
\* arguments in the record a
_get_multiple_best_trading_routes(enabled, m, a, oracle) ==
    RoutesRequested(enabled, m, a, oracle,
                    _get_function_arg_from_cache(enabled, m.fa, "shipName", a.shipName),
                    _get_function_arg_from_cache(enabled, m.fa, "illegalCommoditesAllowed",
                                                 a.illegalCommoditesAllowed))

----------------------------------------------------------------------------
(* _reload_current_commodity_prices and the dispatcher *)

tradeports_for_hull_trading ==
    {<<"B","a","i","j","i","n","i"," ","P","o","i","n","t">>,
     <<"E","v","e","r","u","s"," ","H","a","r","b","o","r">>,
     <<"M","a","g","n","u","s"," ","G","a","t","e","w","a","y">>,
     <<"P","y","r","o"," ","G","a","t","e","w","a","y">>,
     <<"S","e","r","a","p","h","i","m"," ","S","t","a","t","i","o","n">>,
     <<"T","e","r","r","a"," ","G","a","t","e","w","a","y">>,
     <<"P","o","r","t"," ","T","r","e","s","s","l","e","r">>}

ships_for_hull_trading == {<<"H","u","l","l"," ","C">>}

\* tradeport["hull_trading"] = tradeport["name"] in tradeports_for_hull_trading
TradeportsWithHullTrading(lst) ==
    [i \in 1..Len(lst) |->
        [code |-> lst[i].code, name |-> lst[i].name, system |-> lst[i].system,
         planet |-> lst[i].planet, satellite |-> lst[i].satellite,
         city |-> lst[i].city, prices |-> lst[i].prices,
         hull_trading |-> lst[i].name \in tradeports_for_hull_trading]]

\* ship["hull_trading"] = ship["name"] in ships_for_hull_trading
ShipsWithHullTrading(lst) ==
    [i \in 1..Len(lst) |->
        [code |-> lst[i].code, name |-> lst[i].name, scu |-> lst[i].scu,
         hull_trading |-> lst[i].name \in ships_for_hull_trading]]

Names(lst) == [i \in 1..Len(lst) |-> lst[i].name]

Caches == [fa |-> cache.function_args, sm |-> cache.search_matches,
           ro |-> cache.readable_objects]

\* except Exception (lines 739-751)
ErrorResponse(function_name) ==
    [kind |-> "text", text |-> "Error while executing custom function: ",
     function_name |-> function_name]

\* _execute_command_by_function_call without its try block: the response is
\* whatever the handler left behind
FunctionResponse_WithoutTry(function_name, o) == o.response

\* What _execute_command_by_function_call returns for the handler outcome o
FunctionResponse(function_name, o) ==
    IF o.raised # "" THEN ErrorResponse(function_name) ELSE o.response

\* The handler of the request before raised an exception
Faulted == "raised" \in DOMAIN call /\ call.raised # ""

\* The illegalCommoditesAllowed flag that a route request supplied last since
\* the last reload (None: none did), before and after a route request with
\* the arguments a
LastFlag == IF "flag" \in DOMAIN call THEN call.flag ELSE None
FlagAfter(a) ==
    IF IsNone(a.illegalCommoditesAllowed) THEN LastFlag ELSE a.illegalCommoditesAllowed

\* The commodity name that a request supplied last since the last reload
\* (None: none did, or the name last supplied is not a name of the catalog),
\* before and after a request with the arguments a
LastCommodity == IF "commodity" \in DOMAIN call THEN call.commodity ELSE None
CommodityAfter(a) ==
    IF IsNone(a.commodityName) THEN LastCommodity
    ELSE IF InList(a.commodityName.str, commodity_names) THEN a.commodityName
    ELSE None

----------------------------------------------------------------------------
(* Catalogs *)

MaxPrice == 3       \* the highest unit price of a listing

HullC == <<"H","u","l","l"," ","C">>
Cutter == <<"C","u","t","t","e","r">>
Gold == <<"G","o","l","d">>
WiDoW == <<"W","i","D","o","W">>
Stanton == <<"S","t","a","n","t","o","n">>
Pyro == <<"P","y","r","o">>
Hurston == <<"H","u","r","s","t","o","n">>
PortTressler == <<"P","o","r","t"," ","T","r","e","s","s","l","e","r">>
Shubin == <<"S","h","u","b","i","n">>
PyroGateway == <<"P","y","r","o"," ","G","a","t","e","w","a","y">>

GOLD == <<"G","O","L","D">>
WIDO == <<"W","I","D","O">>
ST == <<"S","T">>
PY == <<"P","Y">>
HUR == <<"H","U","R">>

FetchedShips ==
    <<[code |-> <<"H","U","L","C">>, name |-> HullC, scu |-> 4],
      [code |-> <<"C","U","T","T">>, name |-> Cutter, scu |-> 2]>>
FetchedCommodities ==
    <<[code |-> GOLD, name |-> Gold], [code |-> WIDO, name |-> WiDoW]>>
FetchedSystems == <<[code |-> ST, name |-> Stanton], [code |-> PY, name |-> Pyro]>>
FetchedPlanets == <<[code |-> HUR, name |-> Hurston, system |-> ST]>>

Buy(code, name, kind, p) ==
    [code |-> code, operation |-> "buy", price_buy |-> p, price_sell |-> 0,
     kind |-> kind, name |-> name]
Sell(code, name, kind, p) ==
    [code |-> code, operation |-> "sell", price_buy |-> 0, price_sell |-> p,
     kind |-> kind, name |-> name]

\* The listings a tradeport may carry for Gold and for WiDoW (<<>>: none)
GoldAtStart == {<<Buy(GOLD, Gold, "Metal", p)>> : p \in 0..(MaxPrice - 1)}
GoldAnywhere ==
    {<<>>, <<Buy(GOLD, Gold, "Metal", 1)>>}
    \cup {<<Sell(GOLD, Gold, "Metal", p)>> : p \in 2..MaxPrice}
GoldAtEnd == {<<>>, <<Sell(GOLD, Gold, "Metal", MaxPrice)>>}
WidowAtStart == {<<>>, <<Buy(WIDO, WiDoW, "Drug", 1)>>}
WidowAtEnd == {<<>>, <<Sell(WIDO, WiDoW, "Drug", 2)>>}

Tradeport(code, name, system, planet, prices) ==
    [code |-> code, name |-> name, system |-> system, planet |-> planet,
     satellite |-> <<>>, city |-> <<>>, prices |-> prices]

\* The three tradeports with their listings: Port Tressler and Shubin in
\* Stanton, Shubin on Hurston, Pyro Gateway in Pyro
Tradeports(port_tressler, shubin, pyro_gateway) ==
    <<Tradeport(<<"P","T","R","E","S">>, PortTressler, ST, <<>>, port_tressler),
      Tradeport(<<"S","H","U","B">>, Shubin, ST, HUR, shubin),
      Tradeport(<<"P","Y","G","W">>, PyroGateway, PY, <<>>, pyro_gateway)>>

\* What the tradeport endpoints may return
FetchedTradeports ==
    {Tradeports(g1 \o w1, g2 \o w2, g3) :
        g1 \in GoldAtStart, w1 \in WidowAtStart, g2 \in GoldAnywhere,
        w2 \in WidowAtEnd, g3 \in GoldAtEnd}

----------------------------------------------------------------------------
(* Operations *)

\* prepare() with a fresh fetch: _load_data() (lines 247-357) and the name
\* lists (lines 406-440)
Prepare(fetched_tradeports) ==
    /\ phase = "constructed"
    /\ phase' = "ready"
    /\ ships' = ShipsWithHullTrading(FetchedShips)
    /\ commodities' = FetchedCommodities
    /\ systems' = FetchedSystems
    /\ planets' = FetchedPlanets
    /\ satellites' = <<>>
    /\ cities' = <<>>
    /\ tradeports' = TradeportsWithHullTrading(fetched_tradeports)
    /\ ship_names' = Names(FetchedShips)
    /\ commodity_names' = Names(FetchedCommodities)
    /\ system_names' = Names(FetchedSystems)
    /\ tradeport_names' = Names(fetched_tradeports)
    /\ planet_names' = Names(FetchedPlanets)
    /\ satellite_names' = <<>>
    /\ city_names' = <<>>
    /\ call' = [op |-> "prepare"]
    /\ UNCHANGED <<cache_enabled, cache, ncalls>>

\* The dispatcher on get_best_trading_route
GetBestTradingRoute(a, oracle) ==
    /\ phase = "ready"
    /\ \E o \in {_get_best_trading_route(cache_enabled, Caches, a, oracle)} :
          /\ cache' = [function_args |-> o.fa, search_matches |-> o.sm,
                       readable_objects |-> o.ro]
          /\ call' = [op |-> "get_best_trading_route", a |-> a, oracle |-> oracle,
                      after_fault |-> Faulted, flag |-> FlagAfter(a),
                      commodity |-> CommodityAfter(a), raised |-> o.raised,
                      response |-> FunctionResponse("get_best_trading_route", o)]
    /\ ncalls' = ncalls + 1
    /\ UNCHANGED <<phase, catalog_vars, tradeports, name_vars, cache_enabled>>

\* The dispatcher on get_multiple_best_trading_routes
GetMultipleBestTradingRoutes(a, oracle) ==
    /\ phase = "ready"
    /\ \E r \in {_get_multiple_best_trading_routes(cache_enabled, Caches, a, oracle)} :
          /\ cache' = [function_args |-> r.o.fa, search_matches |-> r.o.sm,
                       readable_objects |-> r.o.ro]
          /\ cache_enabled' = r.enabled
          /\ call' = [op |-> "get_multiple_best_trading_routes", a |-> a,
                      oracle |-> oracle, after_fault |-> Faulted,
                      flag |-> FlagAfter(a), commodity |-> CommodityAfter(a),
                      raised |-> r.o.raised,
                      response |-> FunctionResponse("get_multiple_best_trading_routes", r.o)]
    /\ ncalls' = ncalls + 1
    /\ UNCHANGED <<phase, catalog_vars, tradeports, name_vars>>

\* The dispatcher on reload_current_commodity_prices: _load_data(reload=True)
\* refetches the tradeports of every system (lines 286-299, 352-353), then
\* every cache is cleared (lines 995-996)
ReloadCurrentCommodityPrices(fetched_tradeports) ==
    /\ phase = "ready"
    /\ tradeports' = TradeportsWithHullTrading(fetched_tradeports)
    /\ cache' = ClearedCaches(cache)
    /\ call' = [op |-> "reload_current_commodity_prices", raised |-> "",
                after_fault |-> Faulted,
                response |-> Text("Reloaded current commodity prices from UEX corp."),
                \* the number of entries each cache held before
                held |-> [key \in DOMAIN cache |-> Cardinality(DOMAIN cache[key])]]
    /\ ncalls' = ncalls + 1
    /\ UNCHANGED <<phase, catalog_vars, name_vars, cache_enabled>>

----------------------------------------------------------------------------
(* One route request against every catalog *)

\* The requests get_best_trading_route is called with.  freeCargoSpace is in
\* halves: Num(1) is 0.5 SCU, Num(3) is 1.5 SCU, Num(20) is 10 SCU.
RouteArgs ==
    [shipName : {Str(HullC), Str(Cutter)},
     moneyToSpend : {None, Num(0), Num(3)},
     positionStartName : {Str(PortTressler), Str(Shubin), Str(Stanton), Str(PyroGateway)},
     freeCargoSpace : {None, Num(1), Num(3), Num(20)},
     positionEndName : {None, Str(PortTressler), Str(Shubin), Str(PyroGateway)},
     commodityName : {None, Str(WiDoW)},
     illegalCommoditesAllowed : {None, Bool(FALSE)}]

\* The requests get_multiple_best_trading_routes is called with
RoutesArgs ==
    [shipName : {Str(HullC), Str(Cutter)},
     moneyToSpend : {None, Num(3)},
     positionStartName : {Str(PortTressler), Str(Stanton)},
     freeCargoSpace : {None},
     positionEndName : {None, Str(Shubin)},
     commodityName : {None, Str(Gold)},
     illegalCommoditesAllowed : {None, Bool(FALSE)},
     maximalNumberOfRoutes : {0 - 1, 0, 1, 2}]

NoAnswer == Answer(NoneStr)

InitRoute ==
    /\ phase = "ready"
    /\ ships = ShipsWithHullTrading(FetchedShips)
    /\ commodities = FetchedCommodities
    /\ systems = FetchedSystems
    /\ planets = FetchedPlanets
    /\ satellites = <<>>
    /\ cities = <<>>
    /\ \E fetched \in FetchedTradeports :
          /\ tradeports = TradeportsWithHullTrading(fetched)
          /\ tradeport_names = Names(fetched)
    /\ ship_names = Names(FetchedShips)
    /\ commodity_names = Names(FetchedCommodities)
    /\ system_names = Names(FetchedSystems)
    /\ planet_names = Names(FetchedPlanets)
    /\ satellite_names = <<>>
    /\ city_names = <<>>
    /\ cache_enabled = TRUE
    /\ cache = [function_args |-> EmptyDict, search_matches |-> EmptyDict,
                readable_objects |-> EmptyDict]
    /\ call = [op |-> "prepare"]
    /\ ncalls = 0

\* One request for a route
RouteRequest ==
    /\ ncalls = 0
    /\ \E a \in RouteArgs : GetBestTradingRoute(a, NoAnswer)

\* One request for several routes
RoutesRequest ==
    /\ ncalls = 0
    /\ \E a \in RoutesArgs : GetMultipleBestTradingRoutes(a, NoAnswer)

NextRoute == RouteRequest \/ RoutesRequest

SpecRoute == InitRoute /\ [][NextRoute]_vars

----------------------------------------------------------------------------
(* A session: prepare(), then requests and reloads in any order *)

MaxCalls == 3       \* requests and reloads in one behaviour

cutter == <<"c","u","t","t","e","r">>       \* a ship name as it was heard

\* What the tradeport endpoints return during a session: Gold is bought at
\* Port Tressler, at 0 or at 1, and sold at Shubin
SessionTradeports ==
    {Tradeports(<<Buy(GOLD, Gold, "Metal", p)>>, <<Sell(GOLD, Gold, "Metal", 2)>>, <<>>) :
        p \in 0..1}

\* The requests of a session for one route
SessionRouteArgs ==
    [shipName : {None, Str(Cutter), Str(cutter)},
     moneyToSpend : {None, Num(3)},
     positionStartName : {Str(Stanton)},
     freeCargoSpace : {None},
     positionEndName : {None},
     commodityName : {None},
     illegalCommoditesAllowed : {None}]

\* The requests of a session for several routes
SessionRoutesArgs ==
    [shipName : {None, Str(Cutter), Str(cutter)},
     moneyToSpend : {None, Num(3)},
     positionStartName : {Str(Stanton)},
     freeCargoSpace : {None},
     positionEndName : {None},
     commodityName : {None},
     illegalCommoditesAllowed : {None},
     maximalNumberOfRoutes : {2}]

\* What the oracle answers when it is asked during a request
SessionOracle == {Answer(Cutter), NoAnswer}

\* prepare()
Start ==
    \E fetched \in SessionTradeports : Prepare(fetched)

\* A request for one route
Route ==
    /\ ncalls < MaxCalls
    /\ \E a \in SessionRouteArgs, oracle \in SessionOracle : GetBestTradingRoute(a, oracle)

\* A request for several routes
Routes ==
    /\ ncalls < MaxCalls
    /\ \E a \in SessionRoutesArgs, oracle \in SessionOracle :
          GetMultipleBestTradingRoutes(a, oracle)

\* A request to reload the prices
Reload ==
    /\ ncalls < MaxCalls
    /\ \E fetched \in SessionTradeports : ReloadCurrentCommodityPrices(fetched)

Next == Start \/ Route \/ Routes \/ Reload

Spec == Constructed /\ [][Next]_vars

----------------------------------------------------------------------------
(* Claims about the routes.  What a claim expects is stated from the        *)
(* request in call.a and from the catalog, not from the handlers above.     *)

Range(seq) == {seq[i] : i \in 1..Len(seq)}

\* The last operation returned one route
ReturnedRoute ==
    /\ call.op = "get_best_trading_route"
    /\ call.raised = ""
    /\ call.response.kind = "route"

\* The last operation returned a list of routes
ReturnedRouteList ==
    /\ call.op = "get_multiple_best_trading_routes"
    /\ call.raised = ""
    /\ call.response.kind = "routes"

\* Every route in the response of the last operation
ReturnedRoutes ==
    IF ReturnedRoute THEN {call.response}
    ELSE IF ReturnedRouteList THEN Range(call.response.routes)
    ELSE {}

\* The ship the request names
RequestedShip == CHOOSE s \in Range(ships) : s.name = call.a.shipName.str

\* A budget of at least 1 is given
BudgetGiven == ~IsNone(call.a.moneyToSpend) /\ call.a.moneyToSpend.num >= 1

\* The ship's scu lowered to the override when that is positive and smaller
\* (in halves)
CapacityAnyPositiveOverride2 ==
    IF /\ ~IsNone(call.a.freeCargoSpace)
       /\ call.a.freeCargoSpace.num > 0
       /\ call.a.freeCargoSpace.num < 2 * RequestedShip.scu
    THEN call.a.freeCargoSpace.num
    ELSE 2 * RequestedShip.scu

\* The ship's scu lowered to the override when the integer part of the
\* override is at least 1 and the override is smaller (in halves)
EffectiveCapacity2 ==
    IF /\ ~IsNone(call.a.freeCargoSpace)
       /\ call.a.freeCargoSpace.num >= 2
       /\ call.a.freeCargoSpace.num < 2 * RequestedShip.scu
    THEN call.a.freeCargoSpace.num
    ELSE 2 * RequestedShip.scu

\* C4 as stated: every route returned by the optimizer has profit >= 0, a
\* quantity of at most the effective capacity, which is the ship's scu
\* lowered to the free-cargo-space override when that is positive and
\* smaller, and, when a budget >= 1 is given, quantity * buy price <= budget.
C4_PositiveOverrideBoundsQuantity ==
    \A r \in ReturnedRoutes :
        /\ ParseProfit(r.profit) >= 0
        /\ r.cargo2 <= CapacityAnyPositiveOverride2
        /\ (BudgetGiven => r.buy2 <= 2 * call.a.moneyToSpend.num)

\* C4 amended: every route returned by the optimizer has profit >= 0, a
\* quantity of at most the effective capacity, which is the ship's scu
\* lowered to the free-cargo-space override when the integer part of the
\* override is at least 1 and the override is smaller (an override below 1 is
\* ignored), and, when a budget >= 1 is given, quantity * buy price <= budget.
C4_RouteInvariants ==
    \A r \in ReturnedRoutes :
        /\ ParseProfit(r.profit) >= 0
        /\ r.cargo2 <= EffectiveCapacity2
        /\ (BudgetGiven => r.buy2 <= 2 * call.a.moneyToSpend.num)

\* A route for a request with an override of 1.5 SCU and a budget of 3, where
\* the override bounds the quantity
C4_Witness ==
    /\ ReturnedRoute
    /\ call.a.freeCargoSpace = Num(3)
    /\ call.a.moneyToSpend = Num(3)
    /\ call.response.cargo2 = 3

\* The tradeport is the position, or lies in the system or on the planet of
\* that name
InPosition(t, position) ==
    \/ t.name = position
    \/ \E s \in Range(systems) : s.name = position /\ t.system = s.code
    \/ \E p \in Range(planets) : p.name = position /\ t.planet = p.code

\* The requested ship can trade at the tradeport
ShipMayTradeAt(t) == RequestedShip.hull_trading => t.hull_trading

\* The indexes in the catalog of the tradeports the request may start from
StartScope ==
    {i \in 1..Len(tradeports) :
        /\ InPosition(tradeports[i], call.a.positionStartName.str)
        /\ ShipMayTradeAt(tradeports[i])}

\* The indexes of the tradeports the request names as the end or, when it
\* names none, those in the system of the first start tradeport
EndPosition ==
    {i \in 1..Len(tradeports) :
        IF IsNone(call.a.positionEndName)
        THEN tradeports[i].system
                = tradeports[CHOOSE j \in StartScope : \A k \in StartScope : j <= k].system
        ELSE InPosition(tradeports[i], call.a.positionEndName.str)}

\* The indexes of the tradeports the request may end at
EndScope == {i \in EndPosition : ShipMayTradeAt(tradeports[i])}

\* The request admits the commodity of the listing: it names no commodity or
\* this one
InFilter(listing) ==
    IsNone(call.a.commodityName) \/ listing.name = call.a.commodityName.str

\* The request permits the commodity of the listing: illegal commodities are
\* allowed unless the request says otherwise
Permitted(listing) ==
    call.a.illegalCommoditesAllowed = Bool(FALSE) => listing.kind # "Drug"

\* The quantity of a deal on the buy listing, in halves: the capacity, or
\* what the budget buys if that is less
Quantity2(buy) ==
    IF BudgetGiven /\ buy.price_buy > 0
    THEN Min(EffectiveCapacity2, 2 * (call.a.moneyToSpend.num \div buy.price_buy))
    ELSE EffectiveCapacity2

\* The qualifying (start, end, commodity) triples of the request: the start
\* lists the commodity to buy, the end lists it to sell at a higher price,
\* and the quantity is at least 1
Deals ==
    {d \in UNION {[start : {tradeports[i].name}, end : {tradeports[j].name},
                   buy : Range(tradeports[i].prices),
                   sell : Range(tradeports[j].prices)] :
                  i \in StartScope, j \in EndScope} :
        /\ d.buy.operation = "buy"
        /\ d.sell.operation = "sell"
        /\ d.sell.code = d.buy.code
        /\ d.sell.price_sell > d.buy.price_buy
        /\ InFilter(d.buy)
        /\ Quantity2(d.buy) >= 2}

\* Twice q * (sell - buy)
DealProfit2(d) == Quantity2(d.buy) * (d.sell.price_sell - d.buy.price_buy)

\* The route reports the quantity and the totals of the deal
ReportsDeal(r, d) ==
    /\ r.commodity = d.buy.name
    /\ r.cargo2 = Quantity2(d.buy)
    /\ r.buy2 = Quantity2(d.buy) * d.buy.price_buy
    /\ r.sell2 = Quantity2(d.buy) * d.sell.price_sell

SameStartAndEnd ==
    /\ call.op = "get_best_trading_route"
    /\ Cardinality(StartScope) = 1
    /\ EndPosition = StartScope

C7_AtMostMaximalNumberOfRoutes ==
    ReturnedRouteList =>
        /\ Len(call.response.routes) <= call.a.maximalNumberOfRoutes
        /\ \A i, j \in 1..Len(call.response.routes) :
              i < j => ParseProfit(call.response.routes[i].profit)
                          >= ParseProfit(call.response.routes[j].profit)

\* C9: for a ship whose hull_trading flag is true, every start and every end
\* alternative of a route returned by the optimizer or the aggregator is a
\* tradeport whose hull_trading flag is true, and the sell and buy price
\* lookups return null for every tradeport whose flag is false.
C9_HullTradingOnly ==
    /\ \A r \in ReturnedRoutes :
          RequestedShip.hull_trading =>
             \A n \in Range(r.start) \cup Range(r.end) :
                /\ \E t \in Range(tradeports) : t.name = n
                /\ \A t \in Range(tradeports) : t.name = n => t.hull_trading
    /\ \A s \in Range(ships), t \in Range(tradeports), c \in Range(commodities) :
          (s.hull_trading /\ ~t.hull_trading) =>
             /\ _get_data_location_sellprice(t, c, s, 1) = None
             /\ _get_data_location_buyprice(t, c, s, 1) = None

\* A route for a hull-trading ship whose start position holds a tradeport
\* without hull trading that lists a commodity to buy
C9_Witness ==
    /\ ReturnedRoute
    /\ RequestedShip.hull_trading
    /\ \E t \in Range(tradeports) :
          /\ InPosition(t, call.a.positionStartName.str)
          /\ ~t.hull_trading
          /\ \E p \in Range(t.prices) : p.operation = "buy"

----------------------------------------------------------------------------
(* Claims about the caches *)

\* C8: after reload_current_commodity_prices, following any earlier
\* operations, search_matches, function_args and readable_objects are empty.
C8_ReloadClearsCaches ==
    call.op = "reload_current_commodity_prices" =>
        /\ DOMAIN cache.search_matches = {}
        /\ DOMAIN cache.function_args = {}
        /\ DOMAIN cache.readable_objects = {}

\* A reload when each of the three caches held an entry
C8_Witness ==
    /\ call.op = "reload_current_commodity_prices"
    /\ call.held.search_matches > 0
    /\ call.held.function_args > 0
    /\ call.held.readable_objects > 0

\* The names under which the handlers cache arguments, and values a handler
\* may be given for them
ArgNames ==
    {"shipName", "locationName", "locationNameTarget", "commodityName", "money",
     "illegalCommoditesAllowed"}
SuppliedValues == {None, Str(Current), Str(Cutter), Num(3), Bool(FALSE)}

\* C10: in every reachable state _get_function_arg_from_cache(name, value)
\* returns the value cached under name, or null if there is none, when value
\* is null or the marker 'current', and returns value otherwise.
C10_GetReturnsCached ==
    \A arg_name \in ArgNames, arg_value \in SuppliedValues :
        _get_function_arg_from_cache(cache_enabled, cache.function_args,
                                     arg_name, arg_value)
            = IF IsNone(arg_value) \/ arg_value = Str(Current)
              THEN (IF arg_name \in DOMAIN cache.function_args
                    THEN cache.function_args[arg_name] ELSE None)
              ELSE arg_value

\* C11: in every reachable state, _set_function_arg_to_cache(name, value)
\* with a non-null value stores it under name, so that a following
\* get(name, null) returns it; with a null value it removes the entry, so
\* that a following get(name, null) returns null; entries under other names
\* are unchanged.
C11_SetThenGet ==
    \A arg_name \in ArgNames, arg_value \in SuppliedValues :
        \E stored \in {_set_function_arg_to_cache(cache_enabled, cache.function_args,
                                                  arg_name, arg_value)} :
            /\ _get_function_arg_from_cache(cache_enabled, stored, arg_name, None)
                  = arg_value
            /\ \A other \in (DOMAIN stored \cup DOMAIN cache.function_args) \ {arg_name} :
                  /\ other \in DOMAIN stored
                  /\ other \in DOMAIN cache.function_args
                  /\ stored[other] = cache.function_args[other]

----------------------------------------------------------------------------
(* The price lookups called on arbitrary tradeports *)

MaxAmount == 2      \* the highest amount a lookup is asked for

\* Tradeports as the lookups may be handed them: with hull trading or
\* without, and with listings, with no listing, or with no prices at all
PriceTradeports ==
    {[field \in DOMAIN t \cup {"hull_trading"} |->
         IF field = "hull_trading" THEN h ELSE t[field]] :
        h \in BOOLEAN,
        t \in {Tradeport(<<"S","H","U","B">>, Shubin, ST, HUR, prices) :
                  prices \in {<<>>} \cup
                      {<<Sell(GOLD, Gold, "Metal", p)>> : p \in 0..MaxPrice - 1} \cup
                      {<<Buy(GOLD, Gold, "Metal", p)>> : p \in 0..MaxPrice - 1} \cup
                      {<<Buy(GOLD, Gold, "Metal", 1), Sell(WIDO, WiDoW, "Drug", 2)>>}}
              \cup {[code |-> <<"S","H","U","B">>, name |-> Shubin, system |-> ST,
                     planet |-> HUR, satellite |-> <<>>, city |-> <<>>]}}

\* The ships a lookup may be handed: none, or a ship of the catalog
PriceShips == {None} \cup Range(ShipsWithHullTrading(FetchedShips))

\* One call of _get_data_location_sellprice
SellPrice ==
    /\ \E tradeport \in PriceTradeports, commodity \in Range(FetchedCommodities),
          ship \in PriceShips, amount \in 1..MaxAmount :
          call' = [op |-> "sellprice", tradeport |-> tradeport, commodity |-> commodity,
                   ship |-> ship, amount |-> amount,
                   result |-> _get_data_location_sellprice(tradeport, commodity,
                                                           ship, amount)]
    /\ UNCHANGED <<phase, catalog_vars, tradeports, name_vars, cache, cache_enabled, ncalls>>

\* One call of _get_data_location_buyprice
BuyPrice ==
    /\ \E tradeport \in PriceTradeports, commodity \in Range(FetchedCommodities),
          ship \in PriceShips, amount \in 1..MaxAmount :
          call' = [op |-> "buyprice", tradeport |-> tradeport, commodity |-> commodity,
                   ship |-> ship, amount |-> amount,
                   result |-> _get_data_location_buyprice(tradeport, commodity,
                                                          ship, amount)]
    /\ UNCHANGED <<phase, catalog_vars, tradeports, name_vars, cache, cache_enabled, ncalls>>

NextPrice == SellPrice \/ BuyPrice

SpecPrice == Constructed /\ [][NextPrice]_vars

\* The lookup's tradeport has a listing for the commodity with the operation
ListedFor(operation) ==
    /\ "prices" \in DOMAIN call.tradeport
    /\ \E i \in 1..Len(call.tradeport.prices) :
          /\ call.tradeport.prices[i].code = call.commodity.code
          /\ call.tradeport.prices[i].operation = operation

\* The unit price of that listing times the amount
ListedPrice(operation) ==
    LET l == CHOOSE l \in Range(call.tradeport.prices) :
                 l.code = call.commodity.code /\ l.operation = operation
    IN Num((IF operation = "sell" THEN l.price_sell ELSE l.price_buy) * call.amount)

\* The ship of the lookup requires hull trading and the tradeport lacks it
HullTradingLacking ==
    /\ ~IsNone(call.ship) /\ call.ship.hull_trading
    /\ ~call.tradeport.hull_trading

\* C12: the sell price lookup returns null if the tradeport has no prices
\* data, no listing for the commodity with operation 'sell', or lacks the
\* hull trading the ship requires, and else the unit sell price times the
\* amount; the buy price lookup is symmetric; neither raises.
C12_PriceOrNull ==
    /\ call.op = "sellprice" =>
          call.result = IF ListedFor("sell") /\ ~HullTradingLacking
                        THEN ListedPrice("sell") ELSE None
    /\ call.op = "buyprice" =>
          call.result = IF ListedFor("buy") /\ ~HullTradingLacking
                        THEN ListedPrice("buy") ELSE None

----------------------------------------------------------------------------
(* The information handlers *)

\* The text that asks to clarify the misunderstood arguments
Clarification(misunderstood) ==
    [kind |-> "text",
     text |-> "These given parameters do not exist in game. Exactly ask for clarification of these values: ",
     misunderstood |-> misunderstood]

\* The pattern of ResolveArg with the _set_function_arg_to_cache commented
\* out (lines 1029-1031, 1079-1081, 1143-1145)
ResolveArgNotStored(m, value, lst, oracle) ==
    ResolveArg(FALSE, m, value, lst, "", oracle)

\* _get_converted_*_for_output(entity) with its key in readable_objects;
\* None for no entity
Converted(ro, kind, type, entity) ==
    IF IsNone(entity) THEN None
    ELSE [key |-> <<kind, entity.code>>,
          readable |-> IF <<kind, entity.code>> \in DOMAIN ro
                       THEN ro[<<kind, entity.code>>]
                       ELSE [type |-> type, name |-> entity.name]]

\* Lines 1044-1047
ConvertedCommodity(ro, name) ==
    Converted(ro, "commodity", "Commodity", _get_commodity_by_name(name))

\* Lines 1094-1097
ConvertedShip(ro, name) ==
    Converted(ro, "ship", "Ship", _get_ship_by_name(name))

\* The first entity of the sequence that is not None, with its kind and type
RECURSIVE FirstEntity(_)
FirstEntity(found) ==
    IF found = <<>> THEN None
    ELSE IF ~IsNone(Head(found).entity) THEN Head(found)
    ELSE FirstEntity(Tail(found))

\* The conversion of what FirstEntity found
ConvertedFound(ro, found) ==
    IF IsNone(found) THEN None
    ELSE IF found.kind = "tradeport"
    THEN [key |-> ReadableKey(found.entity),
          readable |-> ConvertedTradeport(ro, found.entity)]
    ELSE Converted(ro, found.kind, found.type, found.entity)

\* Lines 1159-1179: the tradeport, city, satellite, planet or system of the
\* name, in this order
ConvertedLocation(ro, name) ==
    ConvertedFound(ro, FirstEntity(
        <<[kind |-> "tradeport", type |-> "Tradeport",
           entity |-> _get_tradeport_by_name(name)],
          [kind |-> "city", type |-> "City", entity |-> _get_city_by_name(name)],
          [kind |-> "satellite", type |-> "Satellite",
           entity |-> _get_satellite_by_name(name)],
          [kind |-> "planet", type |-> "Planet", entity |-> _get_planet_by_name(name)],
          [kind |-> "system", type |-> "Star System",
           entity |-> _get_system_by_name(name)]>>))

\* What an information handler returns for the converted entity: nothing
\* when no entity has the name
InformationConverted(m, sm, converted) ==
    IF IsNone(converted) THEN Outcome(None, m.fa, sm, m.ro, "")
    ELSE Outcome(converted.readable, m.fa, sm,
                 DictSet(m.ro, converted.key, converted.readable), "")

\* An information handler after its name was resolved with the result r: the
\* clarification text, or the converted entity
InformationResolved(m, label, r, ConvertedOf(_, _)) ==
    IF r.raised # "" THEN Outcome(None, m.fa, r.sm, m.ro, r.raised)
    ELSE IF r.misunderstood
    THEN Outcome(Clarification(<<[label |-> label, value |-> r.value]>>),
                 m.fa, r.sm, m.ro, "")
    ELSE InformationConverted(m, r.sm, ConvertedOf(m.ro, r.value))

\* An information handler for the name value, which the session cache gave
\* when the request had none: the prompt when there is no name, else the
\* name is resolved against lst
Information(m, label, prompt, value, lst, oracle, ConvertedOf(_, _)) ==
    IF IsNone(value) THEN Outcome(Text(prompt), m.fa, m.sm, m.ro, "")
    ELSE InformationResolved(m, label, ResolveArgNotStored(m, value, lst, oracle),
                             ConvertedOf)

\* _get_commodity_information(commodityName)
_get_commodity_information(enabled, m, a, oracle) ==
    Information(m, "Commodity", "No commodity given. Ask for a commodity.",
                _get_function_arg_from_cache(enabled, m.fa, "commodityName",
                                             a.commodityName),
                commodity_names, OracleFor(oracle, "commodityName"), ConvertedCommodity)

\* _get_ship_information(shipName)
_get_ship_information(enabled, m, a, oracle) ==
    Information(m, "Ship", "No ship given. Ask for a ship. Dont say sorry.",
                _get_function_arg_from_cache(enabled, m.fa, "shipName", a.shipName),
                ship_names, OracleFor(oracle, "shipName"), ConvertedShip)

\* _get_location_information(locationName)
_get_location_information(enabled, m, a, oracle) ==
    Information(m, "Location", "No location given. Ask for a location.",
                _get_function_arg_from_cache(enabled, m.fa, "locationName",
                                             a.locationName),
                LocationNames, OracleFor(oracle, "locationName"), ConvertedLocation)

----------------------------------------------------------------------------
(* _get_multiple_best_locations_to_sell_to and _to_buy_from *)

\* The three arguments the location handlers resolve, in their order
LocationArgs(commodityName, shipName, a) ==
    <<[label |-> "Commodity", arg_name |-> "commodityName",
       value |-> commodityName, lst |-> commodity_names],
      [label |-> "Ship", arg_name |-> "shipName",
       value |-> shipName, lst |-> ship_names],
      [label |-> "Current Position", arg_name |-> "locationName",
       value |-> a.positionName, lst |-> LocationNames]>>

\* amount (lines 1675-1680): 1 unless commodityAmount is at least 1
AmountOf(commodityAmount) ==
    IF IsNone(commodityAmount) THEN 1
    ELSE IF commodityAmount.num < 1 THEN 1 ELSE commodityAmount.num

\* maximal_number_of_locations without the default of lines 1682-1683
NumberOfLocations_AsGiven(maximalNumberOfLocations) == maximalNumberOfLocations

\* maximal_number_of_locations (lines 1681-1683)
NumberOfLocations(maximalNumberOfLocations) ==
    IF maximalNumberOfLocations < 1 THEN 3 ELSE maximalNumberOfLocations

\* sorted(...) of a set of numbers
RECURSIVE SortedNums(_, _)
SortedNums(S, reverse) ==
    IF S = {} THEN <<>>
    ELSE LET x == CHOOSE x \in S : \A y \in S : IF reverse THEN y <= x ELSE x <= y
         IN <<x>> \o SortedNums(S \ {x}, reverse)

\* The price of the operation at every tradeport of tps
LocationPrices(operation, tps, commodity, ship, amount) ==
    [i \in 1..Len(tps) |->
        IF operation = "sell"
        THEN _get_data_location_sellprice(tps[i], commodity, ship, amount)
        ELSE _get_data_location_buyprice(tps[i], commodity, ship, amount)]

\* The first n prices, the best first, each with its tradeports
Options(operation, tps, looked, n) ==
    LET sorted == SortedNums({looked[i].num : i \in {j \in 1..Len(tps) : ~IsNone(looked[j])}},
                             operation = "sell")
    IN [k \in 1..Min(n, Len(sorted)) |->
          [price |-> sorted[k],
           tradeports |-> SelectSeq2(tps, {t \in Range(tps) :
                              \E i \in 1..Len(tps) :
                                  tps[i] = t /\ looked[i] = Num(sorted[k])})]]

\* Every tradeport of the options, in the order it is described
RECURSIVE OptionTradeports(_)
OptionTradeports(options) ==
    IF options = <<>> THEN <<>>
    ELSE Head(options).tradeports \o OptionTradeports(Tail(options))

\* Lines 1685-1705, for the prices looked up
LocationsListed(m, q, operation, amount, options) ==
    Outcome([kind |-> "locations", operation |-> operation, amount |-> amount,
             commodity |-> q.values[1],
             options |-> [k \in 1..Len(options) |->
                            [price |-> options[k].price,
                             tradeports |-> Names(options[k].tradeports)]]],
            m.fa, m.sm, DescribeAll(m.ro, OptionTradeports(options)), "")

\* Lines 1685-1690: a lookup that raises ends the handler
LocationsLooked(m, q, operation, tps, amount, n, looked) ==
    IF \E i \in 1..Len(tps) : "raised" \in DOMAIN looked[i]
    THEN Outcome(None, m.fa, m.sm, m.ro,
                 looked[CHOOSE i \in 1..Len(tps) : "raised" \in DOMAIN looked[i]].raised)
    ELSE LocationsListed(m, q, operation, amount, Options(operation, tps, looked, n))

\* Lines 1669-1690, for the resolved arguments in q.values
LocationsSearch(m, q, a, operation, tps) ==
    LocationsLooked(m, q, operation, tps, AmountOf(a.commodityAmount),
                    NumberOfLocations(a.maximalNumberOfLocations),
                    LocationPrices(operation, tps, _get_commodity_by_name(q.values[1]),
                                   _get_ship_by_name(q.values[2]),
                                   AmountOf(a.commodityAmount)))

\* Lines 1657-1672, r the outcome of the argument resolution
LocationsResolved(m, a, operation, r) ==
    IF r.raised # "" THEN Outcome(None, r.fa, r.sm, m.ro, r.raised)
    ELSE IF Len(r.misunderstood) > 0
    THEN Outcome(Clarification(r.misunderstood), r.fa, r.sm, m.ro, "")
    ELSE LocationsSearch([fa |-> r.fa, sm |-> r.sm, ro |-> m.ro], r, a, operation,
                         IF IsNone(r.values[3]) THEN tradeports
                         ELSE _get_tradeports_by_positionname(r.values[3]))

\* Lines 1605-1655, commodityName and shipName the values from the session
\* cache
LocationsRequested(enabled, m, a, oracle, operation, commodityName, shipName) ==
    IF IsNone(commodityName)
    THEN Outcome(Text("No commodity given. Ask for a commodity."), m.fa, m.sm, m.ro, "")
    ELSE LocationsResolved(m, a, operation,
                           ResolveArgs(enabled, Unresolved(m.fa, m.sm),
                                       LocationArgs(commodityName, shipName, a), 1, oracle))

\* _get_multiple_best_locations_to_sell_to and _get_multiple_best_locations_to_buy_from
\* (commodityName, shipName, positionName, commodityAmount,
\* maximalNumberOfLocations), the arguments in the record a, operation "sell"
\* or "buy"
_get_multiple_best_locations(enabled, m, a, oracle, operation) ==
    LocationsRequested(enabled, m, a, oracle, operation,
                       _get_function_arg_from_cache(enabled, m.fa, "commodityName",
                                                    a.commodityName),
                       _get_function_arg_from_cache(enabled, m.fa, "shipName", a.shipName))

\* _get_best_location_to_sell_to and _get_best_location_to_buy_from
\* (commodityName, shipName, positionName, commodityAmount)
_get_best_location(enabled, m, a, oracle, operation) ==
    _get_multiple_best_locations(
        enabled, m,
        [commodityName |-> a.commodityName, shipName |-> a.shipName,
         positionName |-> a.positionName, commodityAmount |-> a.commodityAmount,
         maximalNumberOfLocations |-> 1],
        oracle, operation)

----------------------------------------------------------------------------
(* One request that names entities, as they are or as they were heard *)

\* Names as they were heard, and a name that is close to none
gold == <<"g","o","l","d">>
shubin == <<"s","h","u","b","i","n">>
xxx == <<"x","x","x">>

\* The dispatcher on the three information functions
GetInformation(function_name, a, oracle) ==
    /\ phase = "ready"
    /\ \E o \in {IF function_name = "get_commodity_information"
                 THEN _get_commodity_information(cache_enabled, Caches, a, oracle)
                 ELSE IF function_name = "get_ship_information"
                 THEN _get_ship_information(cache_enabled, Caches, a, oracle)
                 ELSE _get_location_information(cache_enabled, Caches, a, oracle)} :
          /\ cache' = [function_args |-> o.fa, search_matches |-> o.sm,
                       readable_objects |-> o.ro]
          /\ call' = [op |-> function_name, a |-> a, oracle |-> oracle,
                      after_fault |-> Faulted, flag |-> LastFlag,
                      commodity |-> LastCommodity, raised |-> o.raised,
                      response |-> FunctionResponse(function_name, o)]
    /\ ncalls' = ncalls + 1
    /\ UNCHANGED <<phase, catalog_vars, tradeports, name_vars, cache_enabled>>

\* The operation of a location function
OperationOf(function_name) ==
    IF function_name \in {"get_best_location_to_sell_to",
                          "get_multiple_best_locations_to_sell_to"}
    THEN "sell" ELSE "buy"

\* The dispatcher on the four location functions
GetBestLocations(function_name, a, oracle) ==
    /\ phase = "ready"
    /\ \E o \in {IF function_name \in {"get_best_location_to_sell_to",
                                       "get_best_location_to_buy_from"}
                 THEN _get_best_location(cache_enabled, Caches, a, oracle,
                                         OperationOf(function_name))
                 ELSE _get_multiple_best_locations(cache_enabled, Caches, a, oracle,
                                                   OperationOf(function_name))} :
          /\ cache' = [function_args |-> o.fa, search_matches |-> o.sm,
                       readable_objects |-> o.ro]
          /\ call' = [op |-> function_name, a |-> a, oracle |-> oracle,
                      after_fault |-> Faulted, flag |-> LastFlag,
                      commodity |-> CommodityAfter(a), raised |-> o.raised,
                      response |-> FunctionResponse(function_name, o)]
    /\ ncalls' = ncalls + 1
    /\ UNCHANGED <<phase, catalog_vars, tradeports, name_vars, cache_enabled>>

\* What the oracle answers, or that it fails, for each argument it is asked
\* about
NameOracles ==
    [shipName : {Answer(Cutter), NoAnswer, OracleRaises},
     locationName : {Answer(Shubin), NoAnswer, OracleRaises},
     locationNameTarget : {NoAnswer},
     commodityName : {Answer(Gold), NoAnswer, OracleRaises}]

\* The names the requests give
ShipNamesGiven == {None, Str(Cutter), Str(cutter)}
CommodityNamesGiven == {None, Str(Gold), Str(gold)}
LocationNamesGiven == {None, Str(Stanton), Str(shubin)}

NamedRouteArgs ==
    [shipName : ShipNamesGiven,
     moneyToSpend : {None},
     positionStartName : LocationNamesGiven,
     freeCargoSpace : {None},
     positionEndName : {None, Str(xxx)},
     commodityName : CommodityNamesGiven,
     illegalCommoditesAllowed : {None}]

NamedRoutesArgs ==
    [shipName : ShipNamesGiven,
     moneyToSpend : {None},
     positionStartName : LocationNamesGiven,
     freeCargoSpace : {None},
     positionEndName : {None, Str(xxx)},
     commodityName : CommodityNamesGiven,
     illegalCommoditesAllowed : {None},
     maximalNumberOfRoutes : {2}]

InformationArgs(function_name) ==
    IF function_name = "get_commodity_information"
    THEN [commodityName : CommodityNamesGiven \cup {Str(xxx)}]
    ELSE IF function_name = "get_ship_information"
    THEN [shipName : ShipNamesGiven \cup {Str(xxx)}]
    ELSE [locationName : LocationNamesGiven \cup {Str(xxx)}]

LocationsArgs(function_name) ==
    IF function_name \in {"get_best_location_to_sell_to", "get_best_location_to_buy_from"}
    THEN [commodityName : CommodityNamesGiven, shipName : ShipNamesGiven,
          positionName : LocationNamesGiven, commodityAmount : {None, Num(2)}]
    ELSE [commodityName : CommodityNamesGiven, shipName : ShipNamesGiven,
          positionName : LocationNamesGiven, commodityAmount : {None, Num(2)},
          maximalNumberOfLocations : {0, 1}]

\* One request for a route
NamedRouteRequest ==
    /\ ncalls = 0
    /\ \E a \in NamedRouteArgs, oracle \in NameOracles : GetBestTradingRoute(a, oracle)

\* One request for several routes
NamedRoutesRequest ==
    /\ ncalls = 0
    /\ \E a \in NamedRoutesArgs, oracle \in NameOracles :
          GetMultipleBestTradingRoutes(a, oracle)

\* One request for information
InformationRequest ==
    /\ ncalls = 0
    /\ \E function_name \in {"get_commodity_information", "get_ship_information",
                             "get_location_information"} :
          \E a \in InformationArgs(function_name), oracle \in NameOracles :
              GetInformation(function_name, a, oracle)

\* One request for the best locations to sell to or to buy from
LocationsRequest ==
    /\ ncalls = 0
    /\ \E function_name \in {"get_best_location_to_sell_to",
                             "get_multiple_best_locations_to_sell_to",
                             "get_best_location_to_buy_from",
                             "get_multiple_best_locations_to_buy_from"} :
          \E a \in LocationsArgs(function_name), oracle \in NameOracles :
              GetBestLocations(function_name, a, oracle)

NextNames ==
    Start \/ NamedRouteRequest \/ NamedRoutesRequest \/ InformationRequest
          \/ LocationsRequest

SpecNames == Constructed /\ [][NextNames]_vars

----------------------------------------------------------------------------
(* Claims about the arguments of a request *)

RouteOps == {"get_best_trading_route", "get_multiple_best_trading_routes"}
LocationOps ==
    {"get_best_location_to_sell_to", "get_multiple_best_locations_to_sell_to",
     "get_best_location_to_buy_from", "get_multiple_best_locations_to_buy_from"}
InformationOps ==
    {"get_commodity_information", "get_ship_information", "get_location_information"}

\* The entity names of the last request, each with its logical parameter and
\* the list it is resolved against
NamedArgs ==
    IF call.op \in RouteOps THEN TradeArgs(call.a.shipName, call.a)
    ELSE IF call.op \in LocationOps
    THEN LocationArgs(call.a.commodityName, call.a.shipName, call.a)
    ELSE IF call.op = "get_commodity_information"
    THEN <<[label |-> "Commodity", arg_name |-> "commodityName",
            value |-> call.a.commodityName, lst |-> commodity_names]>>
    ELSE IF call.op = "get_ship_information"
    THEN <<[label |-> "Ship", arg_name |-> "shipName",
            value |-> call.a.shipName, lst |-> ship_names]>>
    ELSE <<[label |-> "Location", arg_name |-> "locationName",
            value |-> call.a.locationName, lst |-> LocationNames]>>

\* The mandatory arguments of the last request that it does not supply
MissingArgs ==
    {arg \in Range(NamedArgs) :
        /\ IsNone(arg.value)
        /\ \/ arg.label \in {"Location"}
           \/ arg.label = "Ship" /\ call.op \in RouteOps \cup {"get_ship_information"}
           \/ arg.label = "Position Start"
           \/ arg.label = "Commodity"
                 /\ call.op \in LocationOps \cup {"get_commodity_information"}}

\* The supplied name resolves to null: the resolver returns None for it
ResolvesToNull(arg) ==
    /\ ~IsNone(arg.value)
    /\ \E r \in {_find_closest_match(arg.value, arg.lst, EmptyDict,
                                     OracleFor(call.oracle, arg.arg_name))} :
          r.raised = "" /\ IsNone(r.result)

\* The unresolved parameters with their raw values, in the order of the
\* arguments
RECURSIVE UnresolvedArgs(_)
UnresolvedArgs(args) ==
    IF args = <<>> THEN <<>>
    ELSE (IF ResolvesToNull(Head(args))
          THEN <<[label |-> Head(args).label, value |-> Head(args).value]>>
          ELSE <<>>) \o UnresolvedArgs(Tail(args))

\* C13: when a request supplies its mandatory arguments and any supplied
\* ship, commodity or location name resolves to null, the operation returns
\* the clarification text that lists each unresolved parameter with its raw
\* value, runs no search and raises no exception.
C13_ClarificationForUnresolved ==
    (/\ call.op \in RouteOps \cup LocationOps \cup InformationOps
     /\ MissingArgs = {}
     /\ UnresolvedArgs(NamedArgs) # <<>>)
    => /\ call.raised = ""
       /\ call.response = Clarification(UnresolvedArgs(NamedArgs))
       /\ cache.readable_objects = EmptyDict


\* The prompt that asks for a mandatory argument
PromptFor(label) ==
    IF label = "Ship" THEN Text("No ship given. Ask for a ship. Dont say sorry.")
    ELSE IF label = "Position Start"
    THEN Text("No start position given. Ask for a start position. (Station, Planet, Satellite, City or System)")
    ELSE Text("No commodity given. Ask for a commodity.")

\* Every supplied name of the last request resolves to an entity name
SuppliedArgsResolve ==
    \A arg \in Range(NamedArgs) :
        \/ IsNone(arg.value)
        \/ \E r \in {_find_closest_match(arg.value, arg.lst, EmptyDict,
                                         OracleFor(call.oracle, arg.arg_name))} :
              r.raised = "" /\ ~IsNone(r.result)

\* C14: when exactly one mandatory argument of a route, sell/buy location
\* or commodity-information request is absent (and the names it supplies
\* resolve), the operation returns the prompt that asks for that argument:
\* the ship or the start location for route requests, the commodity
\* otherwise.
C14_PromptForMissingArgument ==
    (/\ call.op \in RouteOps \cup LocationOps \cup {"get_commodity_information"}
     /\ Cardinality(MissingArgs) = 1
     /\ SuppliedArgsResolve)
    => /\ call.raised = ""
       /\ \A arg \in MissingArgs : call.response = PromptFor(arg.label)


\* C15: when the oracle call made by _find_closest_match fails, the call
\* returns a member of the shortlist of closest matches or null, and the
\* failure does not leave _find_closest_match as an exception.
C15_OracleFailureNotPropagated ==
    (call.op = "resolve" /\ call.asked /\ call.oracle = OracleRaises)
    => /\ call.raised = ""
       /\ \/ IsNone(call.result)
          \/ InList(call.result.str, ClosestMatches(call.search.str, call.lst))


----------------------------------------------------------------------------
(* Claims about the dispatcher *)

\* The outcome of the handler of the request that the step makes, run on
\* the state before the step
HandlerOutcome ==
    IF call'.op = "get_best_trading_route"
    THEN _get_best_trading_route(cache_enabled, Caches, call'.a, call'.oracle)
    ELSE _get_multiple_best_trading_routes(cache_enabled, Caches, call'.a, call'.oracle).o

\* C16: an exception raised inside the handler of a request is caught by
\* _execute_command_by_function_call and answered with the generic error
\* text, and every request that follows a request whose handler raised is
\* still dispatched to its handler and answered with what the handler
\* returns.
C16_FaultsCaughtAndServiceContinues ==
    [][ncalls' = ncalls + 1
       => /\ "response" \in DOMAIN call'
          /\ call'.raised # "" => call'.response = ErrorResponse(call'.op)
          /\ (Faulted /\ call'.op \in RouteOps)
                => \E o \in {HandlerOutcome} :
                      /\ call'.raised = o.raised
                      /\ o.raised = "" => call'.response = o.response]_vars

\* A request answered by its handler directly after a request whose handler
\* raised and was answered with the generic error text
C16_Witness ==
    /\ call.op \in RouteOps
    /\ call.after_fault
    /\ call.raised = ""
    /\ call.response # ErrorResponse(call.op)


----------------------------------------------------------------------------
(* Reloading while endpoints fail *)

\* What a request to an endpoint may do: answer with status "ok", answer
\* with another status, answer with an HTTP error status, or not answer in
\* time
FetchOutcomes == {"ok", "not ok", "HTTPError", "Timeout"}

\* _fetch_uex_data(endpoint) when the request has the outcome and the
\* endpoint holds the data: requests.get raises on a timeout (line 596),
\* raise_for_status on an HTTP error status (line 599), and a status other
\* than "ok" gives [] (lines 603-605)
_fetch_uex_data(outcome, data) ==
    IF outcome = "Timeout" THEN [data |-> <<>>, raised |-> "Timeout"]
    ELSE IF outcome = "HTTPError" THEN [data |-> <<>>, raised |-> "HTTPError"]
    ELSE IF outcome = "not ok" THEN [data |-> <<>>, raised |-> ""]
    ELSE [data |-> data, raised |-> ""]

\* What the endpoint tradeports/system/<code> holds
TradeportsOfSystem(fetched, code) ==
    SelectSeq2(fetched, {t \in Range(fetched) : t.system = code})

\* for system in self.systems: self.tradeports += self._fetch_uex_data(...)
\* (lines 288-291), self.tradeports being acc; a fetch that raises leaves
\* the loop with what was added so far
RECURSIVE FetchTradeports(_, _, _, _)
FetchTradeports(syss, fetched, outcomes, acc) ==
    IF syss = <<>> THEN [tradeports |-> acc, raised |-> ""]
    ELSE LET r == _fetch_uex_data(outcomes[Head(syss).code],
                                  TradeportsOfSystem(fetched, Head(syss).code))
         IN  IF r.raised # "" THEN [tradeports |-> acc, raised |-> r.raised]
             ELSE FetchTradeports(Tail(syss), fetched, outcomes, acc \o r.data)

\* _load_data(reload=True) (lines 286-299, 352-353): the hull trading flags
\* are set after the loop
LoadedTradeports(r) ==
    IF r.raised # "" THEN r
    ELSE [tradeports |-> TradeportsWithHullTrading(r.tradeports), raised |-> ""]

\* The dispatcher on reload_current_commodity_prices when the request to
\* the tradeport endpoint of each system has the outcome outcomes[code]; the
\* caches are cleared after _load_data returned (lines 993-996)
ReloadFetching(fetched, outcomes) ==
    /\ phase = "ready"
    /\ \E r \in {LoadedTradeports(FetchTradeports(systems, fetched, outcomes, <<>>))} :
          /\ tradeports' = r.tradeports
          /\ cache' = IF r.raised = "" THEN ClearedCaches(cache) ELSE cache
          /\ call' = [op |-> "reload_current_commodity_prices",
                      fetched |-> fetched, outcomes |-> outcomes,
                      before |-> tradeports, after_fault |-> Faulted,
                      raised |-> r.raised,
                      response |->
                          FunctionResponse("reload_current_commodity_prices",
                              [raised |-> r.raised,
                               response |-> Text("Reloaded current commodity prices from UEX corp.")])]
    /\ ncalls' = ncalls + 1
    /\ UNCHANGED <<phase, catalog_vars, name_vars, cache_enabled>>

\* The outcomes of the requests of one reload
ReloadOutcomes == [{FetchedSystems[i].code : i \in 1..Len(FetchedSystems)} -> FetchOutcomes]

\* A request for one route; a request against tradeports that were fetched
\* but never given their hull trading flag is not modelled
LoadRoute ==
    /\ \A i \in 1..Len(tradeports) : "hull_trading" \in DOMAIN tradeports[i]
    /\ Route

\* A request to reload the prices while endpoints may fail
LoadReload ==
    /\ ncalls < MaxCalls
    /\ \E fetched \in SessionTradeports, outcomes \in ReloadOutcomes :
          ReloadFetching(fetched, outcomes)

NextLoad == Start \/ LoadRoute \/ LoadReload

SpecLoad == Constructed /\ [][NextLoad]_vars

\* What the reload gives when every request that fails yields an empty list
\* and the load continues
RECURSIVE YieldedTradeports(_, _, _)
YieldedTradeports(syss, fetched, outcomes) ==
    IF syss = <<>> THEN <<>>
    ELSE (IF outcomes[Head(syss).code] = "ok"
          THEN TradeportsOfSystem(fetched, Head(syss).code) ELSE <<>>)
         \o YieldedTradeports(Tail(syss), fetched, outcomes)

\* C17: when the request to an endpoint fails during a reload, by a
\* timeout, an HTTP error status or a status other than "ok", the fetch
\* yields an empty list for it and does not raise, and the load continues
\* with the other endpoints.
C17_FailedFetchYieldsEmptyList ==
    (call.op = "reload_current_commodity_prices" /\ "outcomes" \in DOMAIN call)
    => /\ call.raised = ""
       /\ tradeports = TradeportsWithHullTrading(
                           YieldedTradeports(systems, call.fetched, call.outcomes))

\* C18: after a reload attempt, one with failing requests included, the
\* tradeports are the complete tradeports of before or the complete new
\* ones, and they are not empty or partly refetched while a cache still
\* holds entries.
C18_ReloadAtomic ==
    (call.op = "reload_current_commodity_prices" /\ "outcomes" \in DOMAIN call)
    => \/ tradeports = call.before
       \/ /\ tradeports = TradeportsWithHullTrading(call.fetched)
          /\ cache = ClearedCaches(cache)


\* C19: with an empty candidate list, _find_closest_match called with a
\* search string returns null and does not raise.
C19_EmptyListNotFound ==
    (call.op = "resolve" /\ ~IsNone(call.search) /\ call.lst = <<>>)
    => call.raised = "" /\ IsNone(call.result)


----------------------------------------------------------------------------
(* The steps of the search *)

\* The tradeports the search runs over, as start and as end tradeports:
\* Port Tressler buys Gold and WiDoW for 1, Shubin buys Gold for 1 and sells
\* WiDoW for 2, Pyro Gateway sells Gold for p and WiDoW for 2
SearchTradeports(p) ==
    TradeportsWithHullTrading(
        Tradeports(<<Buy(GOLD, Gold, "Metal", 1), Buy(WIDO, WiDoW, "Drug", 1)>>,
                   <<Buy(GOLD, Gold, "Metal", 1), Sell(WIDO, WiDoW, "Drug", 2)>>,
                   <<Sell(GOLD, Gold, "Metal", p), Sell(WIDO, WiDoW, "Drug", 2)>>))

\* best_route = {...} (lines 2332-2340), for some prices, money and cargo
\* space
SearchBegin ==
    /\ phase = "constructed"
    /\ call.op = "init"
    /\ \E p \in 2..MaxPrice, money \in {None, Num(1)}, cargo_space2 \in {2, 4} :
          call' = [op |-> "search", tps |-> SearchTradeports(p), money |-> money,
                   cargo_space2 |-> cargo_space2, pos |-> <<0, 0, 0, 0>>,
                   best |-> EmptyRoute]
    /\ UNCHANGED <<phase, catalog_vars, tradeports, name_vars, cache_enabled, cache, ncalls>>

\* The position p comes before the position q in the four nested loops
PosBefore(p, q) ==
    \E n \in 1..4 : p[n] < q[n] /\ \A m \in 1..(n - 1) : p[m] = q[m]

\* One pass through the body of the innermost loop, for the start tradeport
\* i, the end tradeport j, its listing k and the buyable listing l of the
\* start tradeport, at a later position of the loops than the pass before
SearchPair(i, j, k, l) ==
    /\ call.op \in {"search", "search_step"}
    /\ PosBefore(call.pos, <<i, j, k, l>>)
    /\ k \in 1..Len(call.tps[j].prices)
    /\ \E buyable \in {BuyListings(call.tps[i].prices, None, TRUE)} :
          /\ l \in 1..Len(buyable)
          /\ call' = [op |-> "search_step", tps |-> call.tps, money |-> call.money,
                      cargo_space2 |-> call.cargo_space2, pos |-> <<i, j, k, l>>,
                      tradeport_start |-> call.tps[i], tradeport_end |-> call.tps[j],
                      commodity |-> buyable[l], price |-> call.tps[j].prices[k],
                      before |-> call.best,
                      best |-> SearchStep(call.best, call.tps[i], buyable[l],
                                          call.tps[j], call.tps[j].prices[k],
                                          call.money, call.cargo_space2)]
    /\ UNCHANGED <<phase, catalog_vars, tradeports, name_vars, cache_enabled, cache, ncalls>>

NextSearch ==
    \/ SearchBegin
    \/ \E i, j \in 1..3, k, l \in 1..2 : SearchPair(i, j, k, l)

SpecSearch == Constructed /\ [][NextSearch]_vars

----------------------------------------------------------------------------
(* Claims about the search *)

\* The cargo, in halves, and the profit of the pair of the last pass
PairCargo2 ==
    Min(IF IsNone(call.money) THEN call.cargo_space2
        ELSE 2 * (call.money.num \div call.commodity.price_buy),
        call.cargo_space2)
PairProfit ==
    RoundHalves(PairCargo2 * (call.price.price_sell - call.commodity.price_buy))

\* The pair of the last pass qualifies: the end tradeport sells the
\* commodity that the start tradeport offers, for more, and at least one SCU
\* can be carried
PairQualifies ==
    /\ call.op = "search_step"
    /\ call.commodity.code = call.price.code
    /\ call.price.operation = "sell"
    /\ call.price.price_sell > call.commodity.price_buy
    /\ PairCargo2 >= 2

NoDuplicates(lst) == \A m, n \in 1..Len(lst) : lst[m] = lst[n] => m = n

\* lst with x after it where x is not in lst yet
IsAccumulated(after, lst, x) ==
    /\ NoDuplicates(after)
    /\ Range(after) = Range(lst) \cup {x}
    /\ SubSeq(after, 1, Len(lst)) = lst

----------------------------------------------------------------------------
(* Claims about the scope and the policy of the search *)

\* The first tradeport the request may start from
FirstStart == tradeports[CHOOSE j \in StartScope : \A k \in StartScope : j <= k]

\* C21: when a request for one route names no end location, the end
\* tradeports of the search (before the hull-trading filter) are exactly the
\* tradeports of the catalog in the system of the first start tradeport, and
\* no route that is returned ends at a tradeport of another system.
C21_EndsInSystemOfFirstStart ==
    (/\ call.op = "get_best_trading_route"
     /\ IsNone(call.a.positionEndName)
     /\ StartScope # {})
    => /\ Range(EndTradeports(
                  HullFiltered(RequestedShip,
                               _get_tradeports_by_positionname(call.a.positionStartName)),
                  <<>>))
            = {t \in Range(tradeports) : t.system = FirstStart.system}
       /\ ReturnedRoute
          => \A n \in Range(call.response.end), t \in Range(tradeports) :
                t.name = n => t.system = FirstStart.system

\* A route returned for a request without an end location, while a
\* tradeport of another system buys the commodity of the route
C21_Witness ==
    /\ ReturnedRoute
    /\ IsNone(call.a.positionEndName)
    /\ \E t \in Range(tradeports) :
          /\ t.system # FirstStart.system
          /\ \E k \in 1..Len(t.prices) :
                /\ t.prices[k].operation = "sell"
                /\ t.prices[k].name = call.response.commodity


----------------------------------------------------------------------------
(* Sessions that use the argument cache *)

\* The catalogs of these sessions: Port Tressler buys Gold for p and the
\* drug WiDoW for 1, Shubin sells both for 2
CacheTradeports ==
    {Tradeports(<<Buy(GOLD, Gold, "Metal", p), Buy(WIDO, WiDoW, "Drug", 1)>>,
                <<Sell(GOLD, Gold, "Metal", 2), Sell(WIDO, WiDoW, "Drug", 2)>>, <<>>) :
        p \in 0..1}

\* The requests for one route
CacheRouteArgs ==
    [shipName : {Str(Cutter)},
     moneyToSpend : {None, Num(3)},
     positionStartName : {Str(Stanton)},
     freeCargoSpace : {None},
     positionEndName : {None},
     commodityName : {None, Str(WiDoW)},
     illegalCommoditesAllowed : {None, Bool(FALSE), Bool(TRUE)}]

\* The requests for several routes
CacheRoutesArgs ==
    [shipName : {Str(Cutter)},
     moneyToSpend : {None, Num(3)},
     positionStartName : {Str(Stanton)},
     freeCargoSpace : {None},
     positionEndName : {None},
     commodityName : {None, Str(WiDoW)},
     illegalCommoditesAllowed : {None, Bool(FALSE), Bool(TRUE)},
     maximalNumberOfRoutes : {2}]

\* The requests for the locations to sell to
CacheLocationsArgs ==
    [commodityName : {None, Str(Gold)}, shipName : {None}, positionName : {None},
     commodityAmount : {None}, maximalNumberOfLocations : {1}]

CacheStart ==
    \E fetched \in CacheTradeports : Prepare(fetched)

CacheRoute ==
    /\ ncalls < MaxCalls
    /\ \E a \in CacheRouteArgs : GetBestTradingRoute(a, NoAnswer)

CacheRoutes ==
    /\ ncalls < MaxCalls
    /\ \E a \in CacheRoutesArgs : GetMultipleBestTradingRoutes(a, NoAnswer)

CacheLocations ==
    /\ ncalls < MaxCalls
    /\ \E a \in CacheLocationsArgs :
          GetBestLocations("get_multiple_best_locations_to_sell_to", a, NoAnswer)

CacheReload ==
    /\ ncalls < MaxCalls
    /\ \E fetched \in CacheTradeports : ReloadCurrentCommodityPrices(fetched)

NextCache == CacheStart \/ CacheRoute \/ CacheRoutes \/ CacheLocations \/ CacheReload

SpecCache == Constructed /\ [][NextCache]_vars


\* The kinds of the buy listings of the commodity at the tradeport of that
\* name
KindsAtStart(commodity_name, tradeport_name) ==
    {t.prices[k].kind :
        <<t, k>> \in {<<t, k>> \in Range(tradeports) \X (1..2) :
                        /\ t.name = tradeport_name
                        /\ k \in 1..Len(t.prices)
                        /\ t.prices[k].name = commodity_name
                        /\ t.prices[k].operation = "buy"}}

\* C22: when the illegal-goods flag that holds for a route request, the one
\* it supplies or else the one last supplied by a route request since the
\* last reload, is false, no route that the optimizer or the aggregator
\* returns trades a commodity whose listing at a start tradeport has the
\* kind Drug.
C22_NoDrugsUnlessPermitted ==
    (call.op \in RouteOps /\ call.flag = Bool(FALSE))
    => \A route \in ReturnedRoutes : \A n \in Range(route.start) :
          "Drug" \notin KindsAtStart(route.commodity, n)


----------------------------------------------------------------------------
(* Claims about the aggregator and the argument cache *)

\* What the argument handling of the aggregator itself stores for the
\* request a on an empty argument cache: every argument the request gives
AggregatorStored(a) ==
    [arg_name \in
        {"shipName", "locationName"}
        \cup (IF IsNone(a.positionEndName) THEN {} ELSE {"locationNameTarget"})
        \cup (IF IsNone(a.commodityName) THEN {} ELSE {"commodityName"})
        \cup (IF IsNone(a.moneyToSpend) \/ a.moneyToSpend.num < 1 THEN {} ELSE {"money"})
        \cup (IF IsNone(a.illegalCommoditesAllowed) THEN {}
              ELSE {"illegalCommoditesAllowed"})
     |-> IF arg_name = "shipName" THEN a.shipName
         ELSE IF arg_name = "locationName" THEN a.positionStartName
         ELSE IF arg_name = "locationNameTarget" THEN a.positionEndName
         ELSE IF arg_name = "commodityName" THEN a.commodityName
         ELSE IF arg_name = "money" THEN a.moneyToSpend
         ELSE a.illegalCommoditesAllowed]

\* C23: after a request to the aggregator, made on an empty argument cache
\* with names of the catalog, the argument cache holds exactly what the
\* aggregator's own argument handling stored (ship, start and end location,
\* commodity, money, illegal flag): the sub-calls stored nothing, and the
\* cached commodityName is none of the commodity names they iterated.
C23_SubCallsLeaveArgumentCache ==
    call.op = "get_multiple_best_trading_routes"
    => cache.function_args = AggregatorStored(call.a)

\* The aggregator returned routes for a request without a commodity: its
\* sub-calls ran for every commodity name
C23_Witness ==
    /\ ReturnedRouteList
    /\ Len(call.response.routes) > 0
    /\ IsNone(call.a.commodityName)
    /\ "commodityName" \notin DOMAIN cache.function_args


----------------------------------------------------------------------------
(* Reloading a catalog whose tradeports changed *)

\* What the tradeport endpoints return at a load: the three tradeports, or
\* only those of Stanton
ReloadTradeports ==
    {Tradeports(<<Buy(GOLD, Gold, "Metal", 1)>>, <<Sell(GOLD, Gold, "Metal", 2)>>,
                <<Sell(GOLD, Gold, "Metal", MaxPrice)>>),
     SubSeq(Tradeports(<<Buy(GOLD, Gold, "Metal", 1)>>, <<Sell(GOLD, Gold, "Metal", 2)>>,
                       <<>>), 1, 2)}

\* The requests for one route
ReloadRouteArgs ==
    [shipName : {Str(Cutter)},
     moneyToSpend : {None},
     positionStartName : {Str(PortTressler), Str(Stanton)},
     freeCargoSpace : {None},
     positionEndName : {None, Str(Shubin), Str(PyroGateway)},
     commodityName : {None, Str(Gold)},
     illegalCommoditesAllowed : {None}]

ChangedStart ==
    \E fetched \in ReloadTradeports : Prepare(fetched)

ChangedRoute ==
    /\ ncalls < MaxCalls
    /\ \E a \in ReloadRouteArgs : GetBestTradingRoute(a, NoAnswer)

ChangedReload ==
    /\ ncalls < MaxCalls
    /\ \E fetched \in ReloadTradeports : ReloadCurrentCommodityPrices(fetched)

NextReload == ChangedStart \/ ChangedRoute \/ ChangedReload

SpecReload == Constructed /\ [][NextReload]_vars

\* C24: after a reload that succeeded, the name lists the resolver uses
\* contain exactly the names of the entities of the catalog as it is now,
\* and no cache holds an entry.
C24_DerivedDataMatchesReloaded ==
    (call.op = "reload_current_commodity_prices" /\ call.raised = "")
    => /\ Range(tradeport_names) = Range(Names(tradeports))
       /\ Range(ship_names) = Range(Names(ships))
       /\ Range(commodity_names) = Range(Names(commodities))
       /\ Range(system_names) = Range(Names(systems))
       /\ Range(planet_names) = Range(Names(planets))
       /\ cache = ClearedCaches(cache)


\* C25: when a request supplied a commodity name of the catalog, no later
\* request supplied another and no reload happened, a following request for
\* the locations to sell to that omits the commodity is answered for that
\* commodity, also when route requests that omit the commodity were made in
\* between.
C25_LastCommodityRemembered ==
    (/\ call.op \in LocationOps
     /\ IsNone(call.a.commodityName)
     /\ ~IsNone(call.commodity))
    => /\ call.raised = ""
       /\ call.response.kind = "locations"
       /\ call.response.commodity = call.commodity


\* C26: between requests, when no sub-call of the aggregator is executing,
\* cache_enabled is true, also after an aggregator request whose sub-call
\* raised an exception that the dispatcher caught.
C26_CacheEnabledBetweenRequests == cache_enabled = TRUE


----------------------------------------------------------------------------
(* One route request against catalogs with ties *)

Area18 == <<"A","r","e","a","1","8">>
Lorville == <<"L","o","r","v","i","l","l","e">>

\* What Shubin may list in these catalogs: Gold to buy, or WiDoW to buy
ShubinWithTies ==
    {<<Buy(GOLD, Gold, "Metal", p)>> : p \in 1..(MaxPrice - 1)}
    \cup {<<Buy(WIDO, WiDoW, "Drug", 1)>>}

\* Four tradeports in Stanton: Port Tressler buys Gold, Shubin buys Gold or
\* WiDoW, Area18 sells Gold and WiDoW, Lorville sells Gold or nothing
TradeportsWithTies ==
    {<<Tradeport(<<"P","T","R","E","S">>, PortTressler, ST, <<>>,
                 <<Buy(GOLD, Gold, "Metal", p1)>>),
       Tradeport(<<"S","H","U","B">>, Shubin, ST, HUR, at_shubin),
       Tradeport(<<"A","R","1","8">>, Area18, ST, <<>>,
                 <<Sell(GOLD, Gold, "Metal", s1), Sell(WIDO, WiDoW, "Drug", 2)>>),
       Tradeport(<<"L","O","R","V">>, Lorville, ST, HUR, at_lorville)>> :
        p1 \in 1..(MaxPrice - 1), at_shubin \in ShubinWithTies,
        s1 \in 2..MaxPrice, at_lorville \in GoldAnywhere \ {<<Buy(GOLD, Gold, "Metal", 1)>>}}

\* The requests of these behaviours (freeCargoSpace in halves)
TiesArgs ==
    [shipName : {Str(Cutter)},
     moneyToSpend : {None, Num(3)},
     positionStartName : {Str(Stanton), Str(PortTressler)},
     freeCargoSpace : {None, Num(3)},
     positionEndName : {None, Str(Area18), Str(Hurston)},
     commodityName : {None, Str(Gold)},
     illegalCommoditesAllowed : {None, Bool(FALSE)}]

\* prepare() has fetched the tradeports
ReadyWith(fetched) ==
    /\ phase = "ready"
    /\ ships = ShipsWithHullTrading(FetchedShips)
    /\ commodities = FetchedCommodities
    /\ systems = FetchedSystems
    /\ planets = FetchedPlanets
    /\ satellites = <<>>
    /\ cities = <<>>
    /\ tradeports = TradeportsWithHullTrading(fetched)
    /\ tradeport_names = Names(fetched)
    /\ ship_names = Names(FetchedShips)
    /\ commodity_names = Names(FetchedCommodities)
    /\ system_names = Names(FetchedSystems)
    /\ planet_names = Names(FetchedPlanets)
    /\ satellite_names = <<>>
    /\ city_names = <<>>
    /\ cache_enabled = TRUE
    /\ cache = [function_args |-> EmptyDict, search_matches |-> EmptyDict,
                readable_objects |-> EmptyDict]
    /\ call = [op |-> "prepare"]
    /\ ncalls = 0

InitTies == \E fetched \in TradeportsWithTies : ReadyWith(fetched)

\* One request for a route
TiesRequest ==
    /\ ncalls = 0
    /\ \E a \in TiesArgs : GetBestTradingRoute(a, NoAnswer)

SpecTies == InitTies /\ [][TiesRequest]_vars

----------------------------------------------------------------------------
(* Claims about the alternatives of a route *)

\* The route reports the deal: its commodity, its profit, its quantity and
\* its totals
IsDealOf(r, d) ==
    /\ Permitted(d.buy)
    /\ ParseProfit(r.profit) = RoundHalves(DealProfit2(d))
    /\ ReportsDeal(r, d)

----------------------------------------------------------------------------
(* Claims that compare the aggregator with the optimizer *)

\* The arguments of the last request as get_best_trading_route takes them
OptimizerArgs ==
    [shipName |-> call.a.shipName,
     moneyToSpend |-> call.a.moneyToSpend,
     positionStartName |-> call.a.positionStartName,
     freeCargoSpace |-> call.a.freeCargoSpace,
     positionEndName |-> call.a.positionEndName,
     commodityName |-> call.a.commodityName,
     illegalCommoditesAllowed |-> call.a.illegalCommoditesAllowed]

\* What the optimizer does with these arguments as the first request
OptimizerOutcome ==
    _get_best_trading_route(
        TRUE, [fa |-> EmptyDict, sm |-> EmptyDict, ro |-> EmptyDict],
        OptimizerArgs, call.oracle)

OptimizerReturnsRoute ==
    OptimizerOutcome.raised = "" /\ OptimizerOutcome.response.kind = "route"

\* C28: for the same ship, start, end, commodity filter, budget, cargo
\* override and illegal-goods flag, and a maximalNumberOfRoutes of at least
\* 1, the aggregator returns a non-empty list exactly when the optimizer
\* returns a route, and the profit of its first route is the profit of the
\* optimizer's route.
C28_AggregatorAgreesWithOptimizer ==
    (/\ call.op = "get_multiple_best_trading_routes"
     /\ call.a.maximalNumberOfRoutes >= 1)
    => /\ ReturnedRouteList <=> OptimizerReturnsRoute
       /\ ReturnedRouteList
          => ParseProfit(call.response.routes[1].profit)
                = ParseProfit(OptimizerOutcome.response.profit)


\* The responses of get_best_trading_route that are explicit messages about
\* the scope, the capacity and the budget of the search
SearchMessages ==
    {Text("No valid end position given."),
     Text("Start and end position are the same."),
     Text("You dont have enough cargo space or money to trade."),
     [kind |-> "text", text |-> "No route found",
      ship |-> call.a.shipName, start |-> call.a.positionStartName]}

\* C29: for a catalog whose prices are non-negative integers, a buy price of
\* 0 included, a ship and a start location of the catalog and a budget of at
\* least 1, the optimizer raises no exception: it returns a route or one of
\* its messages.
C29_SearchNeverFaults ==
    (/\ call.op = "get_best_trading_route"
     /\ BudgetGiven
     /\ StartScope # {})
    => /\ call.raised = ""
       /\ ReturnedRoute \/ call.response \in SearchMessages


----------------------------------------------------------------------------
(* One request for locations against catalogs with up to four prices *)

\* The Gold listing of a tradeport for the operation at the price p (0: the
\* tradeport does not list Gold)
GoldListed(operation, p) ==
    IF p = 0 THEN <<>>
    ELSE IF operation = "sell" THEN <<Sell(GOLD, Gold, "Metal", p)>>
    ELSE <<Buy(GOLD, Gold, "Metal", p)>>

\* Port Tressler, Shubin and Area18 in Stanton and Pyro Gateway in Pyro, all
\* selling Gold or all buying it
TradeportsWithGold ==
    {<<Tradeport(<<"P","T","R","E","S">>, PortTressler, ST, <<>>,
                 GoldListed(operation, p1)),
       Tradeport(<<"S","H","U","B">>, Shubin, ST, HUR, GoldListed(operation, p2)),
       Tradeport(<<"A","R","1","8">>, Area18, ST, <<>>, GoldListed(operation, p3)),
       Tradeport(<<"P","Y","G","W">>, PyroGateway, PY, <<>>,
                 GoldListed(operation, p4))>> :
        operation \in {"sell", "buy"}, p1 \in 1..2, p2 \in 1..(MaxPrice + 1),
        p3 \in 0..(MaxPrice + 1), p4 \in 0..(MaxPrice + 1)}

\* The requests of these behaviours
GoldLocationsArgs(function_name) ==
    IF function_name \in {"get_best_location_to_sell_to", "get_best_location_to_buy_from"}
    THEN [commodityName : {Str(Gold)}, shipName : {None, Str(HullC)},
          positionName : {None, Str(Stanton)}, commodityAmount : {None, Num(MaxAmount)}]
    ELSE [commodityName : {Str(Gold)}, shipName : {None, Str(HullC)},
          positionName : {None, Str(Stanton)}, commodityAmount : {None, Num(MaxAmount)},
          maximalNumberOfLocations : {0, 1, 2}]

InitLocations == \E fetched \in TradeportsWithGold : ReadyWith(fetched)

\* One request for the best locations to sell Gold to or to buy it from
GoldLocationsRequest ==
    /\ ncalls = 0
    /\ \E function_name \in LocationOps :
          \E a \in GoldLocationsArgs(function_name) :
              GetBestLocations(function_name, a, NoAnswer)

SpecLocations == InitLocations /\ [][GoldLocationsRequest]_vars

----------------------------------------------------------------------------
(* Claims about the locations *)

\* The last operation returned locations
ReturnedLocations ==
    /\ call.op \in LocationOps
    /\ call.raised = ""
    /\ call.response.kind = "locations"

\* The number of groups the request asks for
GroupsAsked ==
    IF call.op \in {"get_best_location_to_sell_to", "get_best_location_to_buy_from"}
    THEN 1
    ELSE IF call.a.maximalNumberOfLocations < 1 THEN 3
    ELSE call.a.maximalNumberOfLocations

\* The amount the request asks for
AmountAsked == IF IsNone(call.a.commodityAmount) THEN 1 ELSE call.a.commodityAmount.num

\* The tradeport is in the scope of the request and the ship of the request,
\* if it names one, can trade there
LocationInScope(t) ==
    /\ IsNone(call.a.positionName) \/ InPosition(t, call.a.positionName.str)
    /\ ~IsNone(call.a.shipName)
       => \A s \in Range(ships) :
             (s.name = call.a.shipName.str /\ s.hull_trading) => t.hull_trading

\* The total prices of the tradeport for the commodity and the operation of
\* the request (none, or one)
TotalPrices(t) ==
    {l.price_sell * AmountAsked :
        l \in {x \in Range(t.prices) :
                 /\ x.name = call.a.commodityName.str
                 /\ x.operation = "sell"
                 /\ OperationOf(call.op) = "sell"}}
    \cup {l.price_buy * AmountAsked :
            l \in {x \in Range(t.prices) :
                     /\ x.name = call.a.commodityName.str
                     /\ x.operation = "buy"
                     /\ OperationOf(call.op) = "buy"}}

\* The distinct total prices in the scope of the request
PricesInScope ==
    UNION {TotalPrices(t) : t \in {x \in Range(tradeports) : LocationInScope(x)}}

\* The price p is better than the price q for the operation of the request
BetterPrice(p, q) == IF OperationOf(call.op) = "sell" THEN p > q ELSE p < q

====
